---------------------------- MODULE Spec2Model ----------------------------
(***************************************************************************)
(* A model of the ts-rules-composer combinator runtime: the rule/result    *)
(* data model, the safety normalization layer (withSafeError,              *)
(* getNormalizedRule(s)), the composition operators (pipeRules,            *)
(* composeRules, every) with their context handling, the logic             *)
(* combinators oneOf, match, not, when, unless and ifElse                  *)
(* (withSafePredicate), the utility wrappers withRetry, withTimeout,       *)
(* withMemoize (alone and under withRetry), withDebug, withTap, tap and    *)
(* inject, and the context helper withLazyContext.                         *)
(*                                                                         *)
(* One call of a composed rule is a small state machine: the async         *)
(* function suspends at each await, so every invocation of a child rule    *)
(* and every settlement of the promise it returned is one step.            *)
(***************************************************************************)
EXTENDS Integers, Sequences, FiniteSets, TLC

(***************************************************************************)
(* Bounds of the model.                                                    *)
(***************************************************************************)
MaxRules == 3

MaxAttempts == 4

MaxCalls == 3

(***************************************************************************)
(* JavaScript values.  Every value is a record, so that values of          *)
(* different JavaScript types can be compared.  Primitives carry their     *)
(* text in v; a plain object is known by its reference v; an Error         *)
(* instance by its message v.                                              *)
(***************************************************************************)
Str(s) == [t |-> "string", v |-> s]

Num(s) == [t |-> "number", v |-> s]

Bool(s) == [t |-> "boolean", v |-> s]

Undefined == [t |-> "undefined", v |-> "undefined"]

Null == [t |-> "null", v |-> "null"]

Obj(ref) == [t |-> "object", v |-> ref]

Err(msg) == [t |-> "error", v |-> msg]

(* A TypeError raised by the runtime: an Error whose name is "TypeError".  *)
TypeErr(msg) == [t |-> "error", v |-> msg, name |-> "TypeError"]

(* error.name *)
ErrorName(x) == IF "name" \in DOMAIN x THEN x.name ELSE "Error"

Arr(items) == [t |-> "array", items |-> items]

(* pass(): { status: "passed" } *)
pass == [status |-> "passed"]

(* fail(error): { status: "failed", error } *)
fail(error) == [status |-> "failed", error |-> error]

(* A rule that violates the Rule contract may return an object whose       *)
(* status is neither "passed" nor "failed".                                *)
StatusObj(s) == [status |-> s]

(* typeof x *)
TypeOf(x) ==
  IF "status" \in DOMAIN x THEN "object"
  ELSE IF x.t \in {"object", "error", "array", "null"} THEN "object"
  ELSE x.t

(* x instanceof Error *)
InstanceOfError(x) == "t" \in DOMAIN x /\ x.t = "error"

(* String(x) for the values of the model.  An Error gives its name and    *)
(* message; an array the strings of its items joined by commas, undefined  *)
(* and null items giving the empty string.                                 *)
RECURSIVE StringOf(_)
StringOf(x) ==
  IF "status" \in DOMAIN x THEN "[object Object]"
  ELSE CASE x.t = "object" -> "[object Object]"
         [] x.t = "error" -> ErrorName(x) \o ": " \o x.v
         [] x.t = "array" ->
              LET item(i) == IF "status" \notin DOMAIN x.items[i]
                                  /\ x.items[i].t \in {"undefined", "null"}
                               THEN "" ELSE StringOf(x.items[i])
                  join[i \in 0..Len(x.items)] ==
                    IF i = 0 THEN ""
                    ELSE IF i = 1 THEN item(1)
                    ELSE join[i - 1] \o "," \o item(i)
              IN  join[Len(x.items)]
         [] OTHER -> x.v

(* The truthiness of a value: `result && ...` *)
Truthy(x) ==
  IF "status" \in DOMAIN x THEN TRUE
  ELSE CASE x.t \in {"undefined", "null"} -> FALSE
         [] x.t = "string" -> x.v # ""
         [] x.t = "number" -> x.v # "0"
         [] x.t = "boolean" -> x.v = "true"
         [] OTHER -> TRUE

(* `"status" in result` (only evaluated on objects) *)
HasStatus(x) == "status" \in DOMAIN x


(***************************************************************************)
(* Error transforms.  "unset" is withSafeError's default parameter value;  *)
(* "custom" is a caller-supplied transform, here the one of the tests:     *)
(* e => ({ code: 500, message: String(e) }).                               *)
(***************************************************************************)
Transforms == {"unset", "custom"}

(* withSafeError's default errorTransform *)
DefaultErrorTransform(e) ==
  IF TypeOf(e) = "object" /\ e # Null THEN e
  ELSE IF InstanceOfError(e) THEN Str(e.v) ELSE Str(StringOf(e))

CustomErrorTransform(e) == [t |-> "object", v |-> "code500", message |-> StringOf(e)]

ApplyTransform(tf, e) ==
  IF tf = "unset" THEN DefaultErrorTransform(e) ELSE CustomErrorTransform(e)

InvalidRuleError == Err("Invalid rule - did not return RuleResult")

(***************************************************************************)
(* What a call of a rule ends with: the value it returned (or its promise  *)
(* resolved to), or the value it threw (or its promise rejected with).     *)
(***************************************************************************)
Returned(x) == [kind |-> "value", val |-> x]

Thrown(x) == [kind |-> "throw", val |-> x]

(***************************************************************************)
(* Leaf rules are opaque callbacks.  The behaviour of a rule on a call:    *)
(*   return  - returns val synchronously                                   *)
(*   resolve - returns a promise that later resolves to val                *)
(*   throw   - throws val synchronously                                    *)
(*   reject  - returns a promise that later rejects with val               *)
(***************************************************************************)
Beh(kind, val) == [kind |-> kind, val |-> val]

RawOutcome(beh) ==
  IF beh.kind \in {"throw", "reject"} THEN Thrown(beh.val) ELSE Returned(beh.val)

(* `result && typeof result === "object" && "status" in result` *)
IsPreserved(x) == Truthy(x) /\ TypeOf(x) = "object" /\ HasStatus(x)

(* A wrapper that also transforms the error of an explicit failure.        *)
withSafeErrorTransformsFailures(out, tf) ==
  IF out.kind = "throw"
    THEN [out |-> Returned(fail(ApplyTransform(tf, out.val))),
          tcalls |-> << [fn |-> tf, arg |-> out.val] >>]
  ELSE IF IsPreserved(out.val) /\ out.val.status = "failed"
    THEN [out |-> Returned(fail(ApplyTransform(tf, out.val.error))),
          tcalls |-> << [fn |-> tf, arg |-> out.val.error] >>]
  ELSE IF IsPreserved(out.val)
    THEN [out |-> out, tcalls |-> << >>]
  ELSE [out |-> Returned(fail(ApplyTransform(tf, InvalidRuleError))),
        tcalls |-> << [fn |-> tf, arg |-> InvalidRuleError] >>]

(***************************************************************************)
(* withSafeError(rule, errorTransform): the rule it returns is an async    *)
(* function, so it never throws synchronously.  Given what the wrapped     *)
(* rule ended with, it yields what the wrapper ends with and the           *)
(* arguments errorTransform was called with.                               *)
(***************************************************************************)
withSafeError(out, tf) ==
  IF out.kind = "throw"
    THEN [out |-> Returned(fail(ApplyTransform(tf, out.val))),
          tcalls |-> << [fn |-> tf, arg |-> out.val] >>]
  ELSE IF IsPreserved(out.val)
    THEN [out |-> out, tcalls |-> << >>]
  ELSE [out |-> Returned(fail(ApplyTransform(tf, InvalidRuleError))),
        tcalls |-> << [fn |-> tf, arg |-> InvalidRuleError] >>]

(* withSafeError(rule, { errorHandlingMode: "unsafe" }), as the README     *)
(* writes it: the options object takes the place of errorTransform.  A     *)
(* result with a status is returned as it is; in every other case the      *)
(* wrapper calls errorTransform, which is not a function, first inside the *)
(* try block and then inside the catch block, and its promise rejects with *)
(* that TypeError.                                                         *)
NotAFunctionError == TypeErr("errorTransform is not a function")

withSafeErrorGivenOptions(out) ==
  IF out.kind = "value" /\ IsPreserved(out.val)
    THEN [out |-> out, tcalls |-> << >>]
  ELSE [out |-> Thrown(NotAFunctionError), tcalls |-> << >>]

(* No wrapper: the rule itself. *)
Unwrapped(out) == [out |-> out, tcalls |-> << >>]

(***************************************************************************)
(* Safety options.  mode and transform are "unset" when the caller left    *)
(* them out; NoOpts is an options argument that was not passed at all.     *)
(***************************************************************************)
Modes == {"unset", "safe", "unsafe"}

Opts(mode, tf) == [errorHandlingMode |-> mode, errorTransform |-> tf]

NoOpts == Opts("unset", "unset")

(* getNormalizedRule(rule, opts): the rule itself in unsafe mode,          *)
(* withSafeError(rule, opts.errorTransform) otherwise.                     *)
getNormalizedRule(out, opts) ==
  IF opts.errorHandlingMode = "unsafe" THEN Unwrapped(out)
  ELSE withSafeError(out, opts.errorTransform)

(* getNormalizedRules(rules, opts) applies the same choice to each rule.   *)
getNormalizedRules(out, opts) ==
  IF opts.errorHandlingMode = "unsafe" THEN Unwrapped(out)
  ELSE withSafeError(out, opts.errorTransform)

(***************************************************************************)
(* An element of a rule list: a leaf rule and its rule-level               *)
(* configuration:                                                          *)
(*   raw     - the leaf rule as written                                    *)
(*   unsafe  - getNormalizedRule(rule, {errorHandlingMode: "unsafe"})      *)
(*   safe    - withSafeError(rule)                                         *)
(*   options - withSafeError(rule, {errorHandlingMode: "unsafe"})          *)
(***************************************************************************)
Elem(beh, cfg) == [beh |-> beh, cfg |-> cfg]

ElemOutcome(el) ==
  CASE el.cfg = "raw" -> Unwrapped(RawOutcome(el.beh))
    [] el.cfg = "unsafe" -> getNormalizedRule(RawOutcome(el.beh), Opts("unsafe", "unset"))
    [] el.cfg = "safe" -> withSafeError(RawOutcome(el.beh), "unset")
    [] el.cfg = "options" -> withSafeErrorGivenOptions(RawOutcome(el.beh))

(* Does calling the element throw synchronously (before any promise)?      *)
ThrowsSync(el) == el.beh.kind = "throw" /\ el.cfg \in {"raw", "unsafe"}

(* Reading `.status` of an awaited result: undefined and null have no      *)
(* properties (a TypeError), any other value without the field gives       *)
(* undefined.                                                              *)
StatusTypeError(x) == TypeErr("Cannot read properties of " \o x.v \o " (reading 'status')")

CanReadStatus(x) == HasStatus(x) \/ x.t \notin {"undefined", "null"}

StatusOf(x) == IF HasStatus(x) THEN x.status ELSE "undefined"

(***************************************************************************)
(* The promise returned by a call.                                         *)
(***************************************************************************)
Pending == [kind |-> "pending"]

Resolved(x) == [kind |-> "resolved", val |-> x]

Rejected(x) == [kind |-> "rejected", val |-> x]

(***************************************************************************)
(* State of one call of a rule built by pipeRules, composeRules, every or  *)
(* getNormalizedRule:                                                      *)
(*   op       the operator that built the rule                             *)
(*   rules    the rule list it was given                                   *)
(*   options  the options it was given                                     *)
(*   pc       where the call's async function is                           *)
(*   idx      the loop variable (the next list index to invoke)            *)
(*   calls    the list indices of the leaf rules invoked so far, in order  *)
(*   inflight the indices whose promise has not settled yet                *)
(*   settled  index -> what the rule's promise settled with                *)
(*   order    the indices in the order their results became available      *)
(*   tlog     the calls of an errorTransform so far: function, argument    *)
(*   outcome  the promise the call returned to its caller                  *)
(* State of one call of a rule built by withRetry:                         *)
(*   retryOpts the options; attempt, lastError the loop's variables        *)
(*   history  what each invocation of the wrapped rule ended with          *)
(*   consulted the (error, attempt) pairs shouldRetry was called with      *)
(*   delays   the delays waited, in order                                  *)
(* The context of a call of a composed rule:                               *)
(*   context  the context argument of the caller                           *)
(*   cloneOpts the cloneContext and cloneStrategy options                  *)
(*   heap     the objects contexts refer to, by identity                   *)
(*   currentContext the value handed to the child rules                    *)
(*   seen     what each invoked child received: the reference and the      *)
(*            object's fields at that moment                               *)
(* State of a rule built by withMemoize and of the calls made to it:       *)
(*   memoOpts the ttl and maxSize options; now the clock (Date.now())      *)
(*   cache    the Map, as its entries in insertion order                   *)
(*   minvs    the invocations of the underlying rule                       *)
(*   mcalls   the calls of the memoized rule, each a completed run of its  *)
(*            body                                                         *)
(* State of one call of a rule built by withTimeout:                       *)
(*   timeoutOpts timeoutMs and timeoutError; timer the timer's state       *)
(*   raced    the state of the rule's side of Promise.race                 *)
(*   events   the settlements of the two sides, in order                   *)
(* State of one call of a rule built by oneOf, match, when, unless or      *)
(* ifElse:                                                                 *)
(*   errs     oneOf's `errors` array                                       *)
(*   selector the behaviour of match's accessor or of the predicate        *)
(*   evals    the evaluations of the selector: the arguments of each       *)
(*   cases    match's mapping from keys to rules; defaultCase its default  *)
(*   predicateErrorTransform the option of that name                       *)
(* State of one call of a rule built by withDebug:                         *)
(*   debugOpts the callbacks of the configuration                          *)
(*   trace    the callbacks and the rule, in the order they were called    *)
(***************************************************************************)
VARIABLES op, rules, options, pc, idx, calls, inflight, settled, order, tlog, outcome,
          retryOpts, attempt, lastError, history, consulted, delays,
          context, cloneOpts, heap, currentContext, seen,
          memoOpts, now, cache, minvs, mcalls,
          timeoutOpts, timer, raced, events,
          errs, selector, evals, cases, defaultCase, predicateErrorTransform,
          debugOpts, trace

compVars == <<rules, options, idx, calls, inflight, settled, order, tlog>>

retryVars == <<retryOpts, attempt, lastError, history, consulted, delays>>

ctxVars == <<context, cloneOpts, heap, currentContext, seen>>

memoVars == <<memoOpts, now, cache, minvs, mcalls>>

timeoutVars == <<timeoutOpts, timer, raced, events>>

logicVars == <<errs, selector, evals, cases, defaultCase, predicateErrorTransform>>

debugVars == <<debugOpts, trace>>

utilVars == <<memoVars, timeoutVars, debugVars, logicVars>>

vars == <<op, pc, outcome, compVars, retryVars, ctxVars, utilVars>>

NotSettled == [kind |-> "none"]

(* The leaf rules and rule-level configurations the rule lists are drawn   *)
(* from.                                                                   *)
RuleSet ==
  { Elem(Beh("return", pass), "raw"),
    Elem(Beh("return", fail(Str("E1"))), "raw"),
    Elem(Beh("resolve", fail(Bool("false"))), "raw"),
    Elem(Beh("resolve", fail(Str(""))), "raw"),
    Elem(Beh("resolve", fail(Num("0"))), "raw"),
    Elem(Beh("throw", Err("Boom")), "unsafe"),
    Elem(Beh("reject", Num("42")), "unsafe"),
    Elem(Beh("throw", Str("oops")), "raw"),
    Elem(Beh("throw", Err("Boom")), "safe"),
    Elem(Beh("throw", Err("Boom")), "options"),
    Elem(Beh("reject", Num("42")), "options"),
    Elem(Beh("return", Undefined), "raw"),
    Elem(Beh("return", StatusObj("pending")), "raw") }

RuleLists == UNION { [1..n -> RuleSet] : n \in 0..MaxRules }

OptionSet == { Opts("unset", "unset"), Opts("safe", "unset"),
               Opts("safe", "custom"), Opts("unsafe", "unset") }

RetryIdle ==
  /\ retryOpts = [attempts |-> 0, delayMs |-> 0, retryStrategy |-> "unset", shouldRetry |-> "unset"]
  /\ attempt = 0
  /\ lastError = Undefined
  /\ history = << >>
  /\ consulted = << >>
  /\ delays = << >>

CompInit(ops) ==
  /\ op \in ops
  /\ rules \in RuleLists
  /\ options \in OptionSet
  /\ pc = "idle"
  /\ idx = 0
  /\ calls = << >>
  /\ inflight = {}
  /\ settled = [i \in 1..Len(rules) |-> NotSettled]
  /\ order = << >>
  /\ tlog = << >>
  /\ outcome = Pending

(***************************************************************************)
(* Contexts.  A context is a value; an object context is a reference into  *)
(* the heap, so that sharing and copying can be told apart.  The caller's  *)
(* context object is { count: 0, nested: { value: 0 } }.                   *)
(***************************************************************************)
HeapIds == {"ctx", "ctx.nested", "clone", "clone.nested"}

NoObject == [live |-> FALSE, count |-> 0, nested |-> "", value |-> 0]

EmptyObject == [live |-> TRUE, count |-> 0, nested |-> "", value |-> 0]

InitialHeap ==
  [id \in HeapIds |->
     CASE id = "ctx" -> [live |-> TRUE, count |-> 0, nested |-> "ctx.nested", value |-> 0]
       [] id = "ctx.nested" -> EmptyObject
       [] OTHER -> NoObject]

IsObjectRef(x) == "t" \in DOMAIN x /\ x.t = "object"

(* A fresh object that copies the own fields of the object at id, the      *)
(* nested object copied too when deep, shared when not.                    *)
CopyObject(h, id, deep) ==
  IF deep /\ h[id].nested # ""
    THEN [h EXCEPT !["clone"] = [h[id] EXCEPT !.nested = "clone.nested"],
                   !["clone.nested"] = h[h[id].nested]]
    ELSE [h EXCEPT !["clone"] = h[id]]

(* shallowClone(obj): {} for a falsy value, { ...obj } otherwise.          *)
shallowClone(h, x) ==
  IF ~Truthy(x) THEN [heap |-> [h EXCEPT !["clone"] = EmptyObject], ref |-> Obj("clone")]
  ELSE IF IsObjectRef(x) THEN [heap |-> CopyObject(h, x.v, FALSE), ref |-> Obj("clone")]
  ELSE [heap |-> [h EXCEPT !["clone"] = EmptyObject], ref |-> Obj("clone")]

(* clone(obj): {} for a falsy value, JSON.parse(JSON.stringify(obj))       *)
(* otherwise (a primitive comes back as itself).                           *)
clone(h, x) ==
  IF ~Truthy(x) THEN [heap |-> [h EXCEPT !["clone"] = EmptyObject], ref |-> Obj("clone")]
  ELSE IF IsObjectRef(x) THEN [heap |-> CopyObject(h, x.v, TRUE), ref |-> Obj("clone")]
  ELSE [heap |-> h, ref |-> x]

(* The platform's structuredClone(value): a deep copy of an object; a      *)
(* primitive, undefined and null included, comes back as itself.           *)
structuredClone(h, x) ==
  IF IsObjectRef(x) THEN [heap |-> CopyObject(h, x.v, TRUE), ref |-> Obj("clone")]
  ELSE [heap |-> h, ref |-> x]

(* `typeof structuredClone !== "undefined"`: the runtime has it.           *)
canUseStructuredClone == TRUE

CloneOpts(cc, strategy) == [cloneContext |-> cc, cloneStrategy |-> strategy]

NoCloneOpts == CloneOpts("unset", "unset")

(* getCloneFn(opts): the strategy's function, by name.                     *)
getCloneFn(opts) ==
  IF opts.cloneStrategy = "shallow" THEN "shallowClone"
  ELSE IF opts.cloneStrategy = "structured" /\ canUseStructuredClone THEN "structuredClone"
  ELSE "clone"

ApplyClone(fn, h, x) ==
  CASE fn = "shallowClone" -> shallowClone(h, x)
    [] fn = "structuredClone" -> structuredClone(h, x)
    [] OTHER -> clone(h, x)

(* A composition that clones the context whatever cloneContext says.       *)
ContextAlwaysCloned(fn, h, x) == ApplyClone(fn, h, x)

(* `options?.cloneContext ? cloneFn(context) : context`                    *)
ContextFor(fn, h, x) ==
  IF cloneOpts.cloneContext = "true" THEN ApplyClone(fn, h, x)
  ELSE [heap |-> h, ref |-> x]

(* The first statements of a composed rule's body.                         *)
EnterContext(fn) ==
  LET r == ContextFor(fn, heap, context)
  IN  heap' = r.heap /\ currentContext' = r.ref

(* What a leaf rule does to the context it is given: nothing, or           *)
(* `ctx.count = (ctx.count || 0) + 1`, or `ctx.nested.value++`.            *)
Effect(el) == IF "fx" \in DOMAIN el THEN el.fx ELSE "none"

Mutate(h, ref, fx) ==
  IF ~IsObjectRef(ref) \/ fx = "none" THEN h
  ELSE IF fx = "count++" THEN [h EXCEPT ![ref.v].count = @ + 1]
  ELSE IF h[ref.v].nested # "" THEN [h EXCEPT ![h[ref.v].nested].value = @ + 1]
  ELSE h

(* Can a rule with effect fx carry it out on the context ref?  Reading a   *)
(* property of undefined or null is a TypeError: ctx.count when ctx is no  *)
(* object, ctx.nested.value when ctx has no nested object.                 *)
CanMutate(h, ref, fx) ==
  \/ fx = "none"
  \/ IsObjectRef(ref) /\ (fx = "nested++" => h[ref.v].nested # "")

ContextTypeError(ref, fx) ==
  IF IsObjectRef(ref)
    THEN TypeErr("Cannot read properties of undefined (reading 'value')")
  ELSE IF fx = "count++"
    THEN TypeErr("Cannot read properties of " \o ref.v \o " (reading 'count')")
  ELSE TypeErr("Cannot read properties of " \o ref.v \o " (reading 'nested')")

(* The fields a child can read through the reference it was given.         *)
Snapshot(h, ref) ==
  IF ~IsObjectRef(ref) THEN [count |-> 0, value |-> 0]
  ELSE [count |-> h[ref.v].count,
        value |-> IF h[ref.v].nested # "" THEN h[h[ref.v].nested].value ELSE 0]

(* A composition that clones the caller's context anew for each child.     *)
ReceiveFreshClone(i) ==
  LET r == ContextFor("clone", heap, context)
  IN  /\ seen' = Append(seen, [rule |-> i, ref |-> r.ref, read |-> Snapshot(r.heap, r.ref)])
      /\ heap' = Mutate(r.heap, r.ref, Effect(rules[i]))

(* `rule(input, currentContext)`: the child receives the reference, reads  *)
(* the context and mutates it.                                             *)
Receive(i) ==
  /\ seen' = Append(seen, [rule |-> i, ref |-> currentContext,
                           read |-> Snapshot(heap, currentContext)])
  /\ heap' = Mutate(heap, currentContext, Effect(rules[i]))

(* The rule el as it behaves when called with currentContext: a rule that  *)
(* cannot carry out its effect throws instead.                             *)
Called(el) ==
  IF CanMutate(heap, currentContext, Effect(el)) THEN el
  ELSE [beh |-> Beh("throw", ContextTypeError(currentContext, Effect(el))),
        cfg |-> el.cfg, fx |-> "none"]

CtxIdle ==
  /\ context = Obj("ctx")
  /\ cloneOpts = NoCloneOpts
  /\ heap = InitialHeap
  /\ currentContext = Undefined
  /\ seen = << >>

MemoIdle ==
  /\ memoOpts = [ttl |-> [given |-> FALSE, v |-> 0], maxSize |-> [given |-> FALSE, v |-> 0]]
  /\ now = 0
  /\ cache = << >>
  /\ minvs = << >>
  /\ mcalls = << >>

TimeoutIdle ==
  /\ timeoutOpts = [timeoutMs |-> 0, timeoutError |-> Undefined]
  /\ timer = << >>
  /\ raced = "none"
  /\ events = << >>

LogicIdle ==
  /\ errs = << >>
  /\ selector = Beh("return", Undefined)
  /\ evals = << >>
  /\ cases = << >>
  /\ defaultCase = Undefined
  /\ predicateErrorTransform = "unset"

DebugIdle ==
  /\ debugOpts = [onStart |-> "unset", onEnd |-> "unset", onError |-> "unset"]
  /\ trace = << >>

UtilIdle == MemoIdle /\ TimeoutIdle /\ DebugIdle /\ LogicIdle

(***************************************************************************)
(* pipeRules(rules, options): rules run left to right, fail-fast.          *)
(***************************************************************************)
(* The wrapper pipeRules puts around each rule: getNormalizedRules(rules), *)
(* called without the options.                                             *)
PipeNormalized(out, opts) == getNormalizedRules(out, NoOpts)

(* What awaiting the normalized element ends with, and the transform calls *)
(* made on the way (the rule-level wrapper's, then the composition's).     *)
PipeElem(el, opts) ==
  LET inner == ElemOutcome(el)
      outer == PipeNormalized(inner.out, opts)
  IN  [out |-> outer.out, tcalls |-> inner.tcalls \o outer.tcalls]

(* The caller calls the composed rule: the loop starts at the first rule.  *)
PipeCall ==
  /\ op = "pipeRules" /\ pc = "idle"
  /\ pc' = "loop"
  /\ idx' = 1
  /\ EnterContext(getCloneFn(cloneOpts))
  /\ UNCHANGED <<op, outcome, rules, options, calls, inflight, settled, order, tlog, retryVars, context, cloneOpts, seen, utilVars>>

(* A loop that invokes the next rule without awaiting the previous one.    *)
PipeInvokeNoAwait ==
  /\ op = "pipeRules" /\ pc = "loop"
  /\ Len(calls) < Len(rules)
  /\ calls' = Append(calls, Len(calls) + 1)
  /\ inflight' = inflight \cup {Len(calls) + 1}
  /\ Receive(Len(calls) + 1)
  /\ UNCHANGED <<op, pc, outcome, rules, options, idx, settled, order, tlog, retryVars, context, cloneOpts, currentContext, utilVars>>

(* `rule(input, currentContext)`: the next rule is invoked.                *)
PipeInvoke ==
  /\ op = "pipeRules" /\ pc = "loop" /\ inflight = {}
  /\ idx <= Len(rules)
  /\ calls' = Append(calls, idx)
  /\ inflight' = {idx}
  /\ Receive(idx)
  /\ UNCHANGED <<op, pc, outcome, rules, options, idx, settled, order, tlog, retryVars, context, cloneOpts, currentContext, utilVars>>

(* A loop body that does not return on a failed result.                    *)
SeqStepKeepsGoing(r, next) ==
  /\ inflight' = {}
  /\ settled' = [settled EXCEPT ![idx] = r.out]
  /\ order' = Append(order, idx)
  /\ tlog' = tlog \o r.tcalls
  /\ IF r.out.kind = "throw"
       THEN pc' = "done" /\ outcome' = Rejected(r.out.val) /\ idx' = idx
     ELSE pc' = pc /\ outcome' = outcome /\ idx' = next

(* What the loop body does with what the awaited rule ended with.          *)
SeqStep(r, next) ==
  /\ inflight' = {}
  /\ settled' = [settled EXCEPT ![idx] = r.out]
  /\ order' = Append(order, idx)
  /\ tlog' = tlog \o r.tcalls
  /\ IF r.out.kind = "throw"
       THEN pc' = "done" /\ outcome' = Rejected(r.out.val) /\ idx' = idx
     ELSE IF ~CanReadStatus(r.out.val)
       THEN pc' = "done" /\ outcome' = Rejected(StatusTypeError(r.out.val)) /\ idx' = idx
     ELSE IF StatusOf(r.out.val) = "failed"
       THEN pc' = "done" /\ outcome' = Resolved(r.out.val) /\ idx' = idx
     ELSE pc' = pc /\ outcome' = outcome /\ idx' = next

(* `await` resumes: a failed result is returned, anything else goes on.    *)
PipeSettle ==
  /\ op = "pipeRules" /\ pc = "loop" /\ inflight = {idx}
  /\ SeqStep(PipeElem(Called(rules[idx]), options), idx + 1)
  /\ UNCHANGED <<op, rules, options, calls, retryVars, ctxVars, utilVars>>

(* The loop ran out of rules: `return pass()`.                             *)
PipeFinish ==
  /\ op = "pipeRules" /\ pc = "loop" /\ inflight = {}
  /\ idx > Len(rules)
  /\ pc' = "done"
  /\ outcome' = Resolved(pass)
  /\ UNCHANGED <<op, compVars, retryVars, ctxVars, utilVars>>

(***************************************************************************)
(* composeRules(rules, options): rules run right to left, fail-fast.  The  *)
(* rules are called as they are given.                                     *)
(***************************************************************************)
(* A composeRules whose loop starts at the first rule.                     *)
ComposeCallFromFirst ==
  /\ op = "composeRules" /\ pc = "idle"
  /\ pc' = "loop"
  /\ idx' = IF Len(rules) = 0 THEN 0 ELSE 1
  /\ EnterContext(getCloneFn(cloneOpts))
  /\ UNCHANGED <<op, outcome, rules, options, calls, inflight, settled, order, tlog, retryVars, context, cloneOpts, seen, utilVars>>

(* `for (let i = rules.length - 1; ...)` *)
ComposeCall ==
  /\ op = "composeRules" /\ pc = "idle"
  /\ pc' = "loop"
  /\ idx' = Len(rules)
  /\ EnterContext(getCloneFn(cloneOpts))
  /\ UNCHANGED <<op, outcome, rules, options, calls, inflight, settled, order, tlog, retryVars, context, cloneOpts, seen, utilVars>>

(* `rules[i](input, currentContext)` *)
ComposeInvoke ==
  /\ op = "composeRules" /\ pc = "loop" /\ inflight = {}
  /\ idx >= 1
  /\ calls' = Append(calls, idx)
  /\ inflight' = {idx}
  /\ Receive(idx)
  /\ UNCHANGED <<op, pc, outcome, rules, options, idx, settled, order, tlog, retryVars, context, cloneOpts, currentContext, utilVars>>

(* `await` resumes; `i--` when the result is not a failure.                *)
ComposeSettle ==
  /\ op = "composeRules" /\ pc = "loop" /\ inflight = {idx}
  /\ SeqStep(ElemOutcome(Called(rules[idx])), idx - 1)
  /\ UNCHANGED <<op, rules, options, calls, retryVars, ctxVars, utilVars>>

(* `i >= 0` fails: `return pass()`.                                        *)
ComposeFinish ==
  /\ op = "composeRules" /\ pc = "loop" /\ inflight = {}
  /\ idx < 1
  /\ pc' = "done"
  /\ outcome' = Resolved(pass)
  /\ UNCHANGED <<op, compVars, retryVars, ctxVars, utilVars>>

(***************************************************************************)
(* every(rules, options): all rules are invoked by one rules.map(...), the *)
(* results are awaited together with Promise.all, and the errors of the    *)
(* failed results are collected.  The rules are called as they are given.  *)
(***************************************************************************)
EveryCall ==
  /\ op = "every" /\ pc = "idle"
  /\ pc' = "map"
  /\ idx' = 1
  /\ EnterContext("structuredClone")
  /\ UNCHANGED <<op, outcome, rules, options, calls, inflight, settled, order, tlog, retryVars, context, cloneOpts, seen, utilVars>>

(* One callback of rules.map: the rule at idx is invoked.  A rule that     *)
(* throws synchronously ends the map and the call; a synchronous return    *)
(* puts the value itself in the array; otherwise a promise is pending.     *)
EveryMap ==
  /\ op = "every" /\ pc = "map"
  /\ idx <= Len(rules)
  /\ Receive(idx)
  /\ calls' = Append(calls, idx)
  /\ IF ThrowsSync(Called(rules[idx]))
       THEN /\ pc' = "done"
            /\ outcome' = Rejected(Called(rules[idx]).beh.val)
            /\ UNCHANGED <<idx, inflight, settled, order>>
     ELSE IF Called(rules[idx]).beh.kind = "return" /\ rules[idx].cfg \in {"raw", "unsafe"}
       THEN /\ settled' = [settled EXCEPT ![idx] = Returned(Called(rules[idx]).beh.val)]
            /\ order' = Append(order, idx)
            /\ idx' = idx + 1
            /\ UNCHANGED <<pc, outcome, inflight>>
     ELSE /\ inflight' = inflight \cup {idx}
          /\ idx' = idx + 1
          /\ UNCHANGED <<pc, outcome, settled, order>>
  /\ UNCHANGED <<op, rules, options, tlog, retryVars, context, cloneOpts, currentContext, utilVars>>

(* The map is complete: `await Promise.all(...)`.                          *)
EveryAwait ==
  /\ op = "every" /\ pc = "map"
  /\ idx > Len(rules)
  /\ pc' = "await"
  /\ UNCHANGED <<op, outcome, compVars, retryVars, ctxVars, utilVars>>

(* A pending promise settles, in any order.  The first rejection rejects   *)
(* Promise.all and with it the call; the other rules keep running.         *)
EverySettle(i) ==
  /\ op = "every" /\ pc \in {"await", "done"}
  /\ i \in inflight
  /\ LET r == ElemOutcome(Called(rules[i]))
     IN  /\ inflight' = inflight \ {i}
         /\ settled' = [settled EXCEPT ![i] = r.out]
         /\ order' = Append(order, i)
         /\ tlog' = tlog \o r.tcalls
         /\ IF pc = "await" /\ r.out.kind = "throw"
              THEN pc' = "done" /\ outcome' = Rejected(r.out.val)
              ELSE UNCHANGED <<pc, outcome>>
  /\ UNCHANGED <<op, rules, options, idx, calls, retryVars, ctxVars, utilVars>>

(* A collection that drops falsy errors.                                   *)
RECURSIVE CollectErrorsTruthy(_)
CollectErrorsTruthy(results) ==
  IF results = << >> THEN << >>
  ELSE LET r == Head(results)
       IN  (IF StatusOf(r) = "failed" /\ Truthy(r.error) THEN << r.error >> ELSE << >>)
             \o CollectErrorsTruthy(Tail(results))

(* results.flatMap((r) => r.status === "failed" ? [r.error] : [])          *)
RECURSIVE CollectErrors(_)
CollectErrors(results) ==
  IF results = << >> THEN << >>
  ELSE LET r == Head(results)
       IN  (IF StatusOf(r) = "failed" THEN << r.error >> ELSE << >>)
             \o CollectErrors(Tail(results))

(* The first result, in list order, that has no properties to read.        *)
FirstUnreadable(results) ==
  CHOOSE i \in 1..Len(results) :
    /\ ~CanReadStatus(results[i])
    /\ \A j \in 1..(i - 1) : CanReadStatus(results[j])

(* Promise.all resolved with the results in list order: collect.           *)
EveryCollect ==
  /\ op = "every" /\ pc = "await"
  /\ inflight = {}
  /\ LET results == [i \in 1..Len(rules) |-> settled[i].val]
         errors == CollectErrors(results)
     IN  outcome' =
           IF \E i \in 1..Len(rules) : ~CanReadStatus(results[i])
             THEN Rejected(StatusTypeError(results[FirstUnreadable(results)]))
           ELSE IF Len(errors) > 0 THEN Resolved(fail(Arr(errors)))
           ELSE Resolved(pass)
  /\ pc' = "done"
  /\ UNCHANGED <<op, compVars, retryVars, ctxVars, utilVars>>

Init == CompInit({"pipeRules", "composeRules", "every"}) /\ RetryIdle /\ CtxIdle /\ UtilIdle

Next ==
  \/ PipeCall \/ PipeInvoke \/ PipeSettle \/ PipeFinish
  \/ ComposeCall \/ ComposeInvoke \/ ComposeSettle \/ ComposeFinish
  \/ EveryCall \/ EveryMap \/ EveryAwait \/ EveryCollect
  \/ \E i \in 1..MaxRules + 1 : EverySettle(i)

Spec == Init /\ [][Next]_vars

(***************************************************************************)
(* The compositions called with rules that read and mutate the context.    *)
(***************************************************************************)
(* countingRule (synchronous and asynchronous), a rule that increments     *)
(* ctx.nested.value, a rule that passes and one that fails.                *)
CtxRuleSet ==
  { [beh |-> Beh("return", pass), cfg |-> "raw", fx |-> "count++"],
    [beh |-> Beh("resolve", pass), cfg |-> "raw", fx |-> "count++"],
    [beh |-> Beh("return", pass), cfg |-> "raw", fx |-> "nested++"],
    [beh |-> Beh("return", pass), cfg |-> "raw", fx |-> "none"],
    [beh |-> Beh("resolve", fail(Str("E1"))), cfg |-> "raw", fx |-> "none"] }

CloneOptionSet ==
  { CloneOpts(cc, st) : cc \in {"unset", "true", "false"},
                        st \in {"unset", "shallow", "json", "structured"} }

CtxInit ==
  /\ op \in {"pipeRules", "composeRules", "every"}
  /\ rules \in UNION { [1..n -> CtxRuleSet] : n \in 0..MaxRules }
  /\ options = NoOpts
  /\ pc = "idle"
  /\ idx = 0
  /\ calls = << >>
  /\ inflight = {}
  /\ settled = [i \in 1..Len(rules) |-> NotSettled]
  /\ order = << >>
  /\ tlog = << >>
  /\ outcome = Pending
  /\ context \in { Obj("ctx"), Undefined, Null }
  /\ cloneOpts \in CloneOptionSet
  /\ heap = InitialHeap
  /\ currentContext = Undefined
  /\ seen = << >>
  /\ RetryIdle /\ UtilIdle

SpecCtx == CtxInit /\ [][Next]_vars

(***************************************************************************)
(* getNormalizedRule(rule, opts) applied to one leaf rule, and the rule it *)
(* returns called once.                                                    *)
(***************************************************************************)
ReturnValues ==
  { pass, fail(Str("E1")), fail(Bool("false")), fail(Obj("o1")),
    Undefined, Null, Str("ok"), Num("0"), Obj("o1"), StatusObj("pending") }

ThrownValues ==
  { Err("Boom"), Str("oops"), Num("42"), Bool("false"), Undefined, Null, Obj("o1") }

LeafBehaviours ==
  { Beh(k, x) : k \in {"return", "resolve"}, x \in ReturnValues }
    \cup { Beh(k, x) : k \in {"throw", "reject"}, x \in ThrownValues }

SafeInit ==
  /\ op = "getNormalizedRule"
  /\ \E b \in LeafBehaviours : rules = << Elem(b, "raw") >>
  /\ options \in { Opts(m, tf) : m \in Modes, tf \in Transforms }
  /\ pc = "idle"
  /\ idx = 0
  /\ calls = << >>
  /\ inflight = {}
  /\ settled = << NotSettled >>
  /\ order = << >>
  /\ tlog = << >>
  /\ outcome = Pending
  /\ RetryIdle /\ CtxIdle /\ UtilIdle

(* The normalized rule is called: it calls the leaf rule.                  *)
NormInvoke ==
  /\ op = "getNormalizedRule" /\ pc = "idle"
  /\ pc' = "loop"
  /\ idx' = 1
  /\ calls' = Append(calls, 1)
  /\ inflight' = {1}
  /\ UNCHANGED <<op, outcome, rules, options, settled, order, tlog, retryVars, ctxVars, utilVars>>

(* The leaf rule's call ends and with it the normalized rule's.            *)
NormSettle ==
  /\ op = "getNormalizedRule" /\ pc = "loop" /\ inflight = {1}
  /\ LET r == getNormalizedRule(RawOutcome(rules[1].beh), options)
     IN  /\ settled' = [settled EXCEPT ![1] = RawOutcome(rules[1].beh)]
         /\ tlog' = tlog \o r.tcalls
         /\ outcome' = IF r.out.kind = "throw" THEN Rejected(r.out.val)
                       ELSE Resolved(r.out.val)
  /\ inflight' = {}
  /\ order' = Append(order, 1)
  /\ pc' = "done"
  /\ UNCHANGED <<op, rules, options, idx, calls, retryVars, ctxVars, utilVars>>

NextSafe == NormInvoke \/ NormSettle

SpecSafe == SafeInit /\ [][NextSafe]_vars

(***************************************************************************)
(* withRetry(rule, options).                                               *)
(***************************************************************************)
(* An option the caller gave, or left out.                                 *)
Given(x) == [given |-> TRUE, v |-> x]

NotGiven == [given |-> FALSE, v |-> 0]

(* `const { attempts = 3, delayMs = 100, shouldRetry = () => true }` *)
DefaultAttempts == 3

DefaultDelayMs == 100

Attempts == IF retryOpts.attempts.given THEN retryOpts.attempts.v ELSE DefaultAttempts

DelayMs == IF retryOpts.delayMs.given THEN retryOpts.delayMs.v ELSE DefaultDelayMs

(* The shouldRetry predicates of the model: the default, one that never    *)
(* retries, one that retries only after the first attempt, and one that    *)
(* gives up on the error "fatal".                                          *)
ShouldRetryKinds == {"unset", "never", "firstOnly", "notFatal"}

ShouldRetry(kind, error, n) ==
  CASE kind = "unset" -> TRUE
    [] kind = "never" -> FALSE
    [] kind = "firstOnly" -> n < 2
    [] kind = "notFatal" -> error # Str("fatal")

(* A number of milliseconds, as a value of the program.                    *)
Ms(n) == [t |-> "number", ms |-> n]

(* The retry strategies: unset, the three named ones, a string that names  *)
(* nothing, strings that name a property the strategies table inherits     *)
(* from Object.prototype, and a caller's function                          *)
(* (attempt) => 7 * attempt + 1.                                           *)
Strategies ==
  {"unset", "fixed", "linear", "exponential", "bogus", "custom",
   "toString", "valueOf", "constructor", "__proto__"}

CustomStrategy(n) == 7 * n + 1

(* The own properties of the `strategies` object literal.                  *)
StrategyNames == {"fixed", "linear", "exponential"}

(* What `strategies[strategy]` finds on Object.prototype and what calling  *)
(* it as a plain function with (attempt) does: toString gives the tag of   *)
(* an undefined receiver, valueOf cannot convert its undefined receiver,   *)
(* constructor (Object) boxes the attempt number, and __proto__ is         *)
(* Object.prototype itself, an object that is truthy and not callable.     *)
InheritedStrategy(strategy, n) ==
  CASE strategy = "toString" -> Returned(Str("[object Undefined]"))
    [] strategy = "valueOf" ->
         Thrown(TypeErr("Cannot convert undefined or null to object"))
    [] strategy = "constructor" -> Returned([t |-> "object", v |-> "Number", boxed |-> n])
    [] strategy = "__proto__" -> Thrown(TypeErr("strategyFn is not a function"))

InheritedNames == {"toString", "valueOf", "constructor", "__proto__"}

(* calculateDelay(strategy, attempt, initialDelayMs): what it returns or   *)
(* throws.                                                                 *)
calculateDelay(strategy, n, initialDelayMs) ==
  IF strategy = "unset" THEN Returned(Ms(initialDelayMs))
  ELSE IF strategy = "custom" THEN Returned(Ms(CustomStrategy(n)))
  ELSE IF strategy \in StrategyNames
    THEN CASE strategy = "fixed" -> Returned(Ms(initialDelayMs))
           [] strategy = "linear" -> Returned(Ms(initialDelayMs * n))
           [] strategy = "exponential" -> Returned(Ms(initialDelayMs * 2 ^ (n - 1)))
  ELSE IF strategy \in InheritedNames THEN InheritedStrategy(strategy, n)
  ELSE Returned(Ms(initialDelayMs))

MaxRetriesExceeded == Str("MAX_RETRIES_EXCEEDED")

(* What the wrapped rule may do on an invocation.                          *)
RetryBehaviours ==
  { Beh("return", pass), Beh("resolve", fail(Str("E1"))),
    Beh("return", fail(Str("fatal"))), Beh("throw", Err("Boom")),
    Beh("return", Undefined) }

RetryInit ==
  /\ op = "withRetry"
  /\ retryOpts \in
       [ attempts : {NotGiven} \cup { Given(n) : n \in (0 - 1)..MaxAttempts },
         delayMs : { NotGiven, Given(0), Given(10) },
         retryStrategy : Strategies,
         shouldRetry : ShouldRetryKinds ]
  /\ attempt = 0
  /\ lastError = Undefined
  /\ history = << >>
  /\ consulted = << >>
  /\ delays = << >>
  /\ pc = "idle"
  /\ outcome = Pending
  /\ rules = << >>
  /\ options = NoOpts
  /\ idx = 0
  /\ calls = << >>
  /\ inflight = {}
  /\ settled = << >>
  /\ order = << >>
  /\ tlog = << >>
  /\ CtxIdle /\ UtilIdle

(* The loop condition with an off-by-one.                                  *)
MoreAttemptsOffByOne(n) == n < Attempts

(* `attempt <= attempts` *)
MoreAttempts(n) == n <= Attempts

(* The retrying rule is called: `let attempt = 1`.                         *)
RetryCall ==
  /\ op = "withRetry" /\ pc = "idle"
  /\ attempt' = 1
  /\ pc' = "check"
  /\ UNCHANGED <<op, outcome, compVars, ctxVars, utilVars, retryOpts, lastError, history, consulted, delays>>

(* `await rule(input, context)`: the wrapped rule is invoked and does what *)
(* it does on this invocation.                                             *)
RetryInvoke ==
  /\ op = "withRetry" /\ pc = "check"
  /\ MoreAttempts(attempt)
  /\ \E b \in RetryBehaviours : history' = Append(history, b)
  /\ pc' = "invoked"
  /\ UNCHANGED <<op, outcome, compVars, ctxVars, utilVars, retryOpts, attempt, lastError, consulted, delays>>

(* A catch block that leaves lastError as it was declared (undefined).     *)
AttemptErrorDropsThrown(out) ==
  IF out.kind = "throw" THEN Undefined
  ELSE IF ~CanReadStatus(out.val) THEN StatusTypeError(out.val)
  ELSE IF "error" \in DOMAIN out.val THEN out.val.error
  ELSE Undefined

(* The error the try/catch leaves in lastError for an attempt that did not *)
(* pass: the result's error, or the value thrown (also by `result.status`  *)
(* on a result that is undefined or null).                                 *)
AttemptError(out) ==
  IF out.kind = "throw" THEN out.val
  ELSE IF ~CanReadStatus(out.val) THEN StatusTypeError(out.val)
  ELSE IF "error" \in DOMAIN out.val THEN out.val.error
  ELSE Undefined

AttemptPassed(out) ==
  out.kind = "value" /\ CanReadStatus(out.val) /\ StatusOf(out.val) = "passed"

(* A give-up that returns the sentinel instead of the attempt's error.      *)
GiveUpWithSentinel(e) == Resolved(fail(MaxRetriesExceeded))

(* `return fail(lastError)` when shouldRetry said no.                      *)
GiveUp(e) == Resolved(fail(e))

(* The attempt ends: return on a pass; otherwise consult shouldRetry,      *)
(* return fail(lastError) when it says no, else start the delay or go to   *)
(* the next attempt.  calculateDelay is called outside the try block, so   *)
(* what it throws rejects the call.                                        *)
RetrySettle ==
  /\ op = "withRetry" /\ pc = "invoked"
  /\ LET out == RawOutcome(history[Len(history)])
         e == AttemptError(out)
     IN  IF AttemptPassed(out)
           THEN /\ outcome' = Resolved(out.val)
                /\ pc' = "done"
                /\ UNCHANGED <<attempt, lastError, consulted, delays>>
         ELSE /\ lastError' = e
              /\ consulted' = Append(consulted, <<e, attempt>>)
              /\ IF ~ShouldRetry(retryOpts.shouldRetry, e, attempt)
                   THEN /\ outcome' = GiveUp(e)
                        /\ pc' = "done"
                        /\ UNCHANGED <<attempt, delays>>
                 ELSE IF attempt < Attempts /\ DelayMs > 0
                   THEN LET delay == calculateDelay(retryOpts.retryStrategy, attempt, DelayMs)
                        IN  IF delay.kind = "throw"
                              THEN /\ outcome' = Rejected(delay.val)
                                   /\ pc' = "done"
                                   /\ UNCHANGED <<attempt, delays>>
                            ELSE /\ delays' = Append(delays, delay.val)
                                 /\ pc' = "delay"
                                 /\ UNCHANGED <<attempt, outcome>>
                 ELSE /\ attempt' = attempt + 1
                      /\ pc' = "check"
                      /\ UNCHANGED <<outcome, delays>>
  /\ UNCHANGED <<op, compVars, ctxVars, utilVars, retryOpts, history>>

(* The timer of the delay fires: `attempt++`.                              *)
RetryTimer ==
  /\ op = "withRetry" /\ pc = "delay"
  /\ attempt' = attempt + 1
  /\ pc' = "check"
  /\ UNCHANGED <<op, outcome, compVars, ctxVars, utilVars, retryOpts, lastError, history, consulted, delays>>

(* A loop that ends with the last error instead of the sentinel.           *)
RetryExhaustedReturnsLastError ==
  /\ op = "withRetry" /\ pc = "check"
  /\ ~MoreAttempts(attempt)
  /\ outcome' = Resolved(fail(lastError))
  /\ pc' = "done"
  /\ UNCHANGED <<op, compVars, retryVars, ctxVars, utilVars>>

(* The loop is over: `return fail("MAX_RETRIES_EXCEEDED")`.                *)
RetryExhausted ==
  /\ op = "withRetry" /\ pc = "check"
  /\ ~MoreAttempts(attempt)
  /\ outcome' = Resolved(fail(MaxRetriesExceeded))
  /\ pc' = "done"
  /\ UNCHANGED <<op, compVars, retryVars, ctxVars, utilVars>>

NextRetry == RetryCall \/ RetryInvoke \/ RetrySettle \/ RetryTimer \/ RetryExhausted

SpecRetry == RetryInit /\ [][NextRetry]_vars

(***************************************************************************)
(* withTimeout(rule, timeoutMs, timeoutError): the rule raced against a    *)
(* timer.  The timer is started first, then the rule is invoked; the call  *)
(* settles as the first of the two sides to settle, and the other side     *)
(* still settles later.                                                    *)
(***************************************************************************)
TimeoutErrors == { Str("Timeout exceeded"), Obj("o1"), Undefined }

TimeoutInit ==
  /\ op = "withTimeout"
  /\ \E b \in LeafBehaviours : rules = << Elem(b, "raw") >>
  /\ timeoutOpts \in [timeoutMs : {0, 100}, timeoutError : TimeoutErrors]
  /\ timer = << >>
  /\ raced = "none"
  /\ events = << >>
  /\ pc = "idle"
  /\ outcome = Pending
  /\ options = NoOpts
  /\ idx = 0
  /\ calls = << >>
  /\ inflight = {}
  /\ settled = << NotSettled >>
  /\ order = << >>
  /\ tlog = << >>
  /\ RetryIdle /\ CtxIdle /\ MemoIdle /\ DebugIdle /\ LogicIdle

(* A timer that rejects the call with timeoutError.                        *)
TimeoutResultRejects(e) == Rejected(e)

(* `resolve(fail(timeoutError))`                                           *)
TimeoutResult(e) == Resolved(fail(e))

(* A race whose result follows the last side to settle.                    *)
RaceLastWins(current, settlement) == settlement

(* Promise.race: the first settlement is the result, later ones change     *)
(* nothing.                                                                *)
Race(current, settlement) == IF current = Pending THEN settlement ELSE current

(* The rule with the timeout is called: setTimeout, then the rule.  A rule *)
(* that throws synchronously rejects the call; a value returned            *)
(* synchronously is already settled when the race starts.                  *)
TimeoutCall ==
  /\ op = "withTimeout" /\ pc = "idle"
  /\ timer' = << [ms |-> timeoutOpts.timeoutMs, fired |-> FALSE] >>
  /\ calls' = Append(calls, 1)
  /\ LET b == rules[1].beh
     IN  CASE b.kind = "throw" ->
                /\ raced' = "threw"
                /\ events' = << "rule" >>
                /\ settled' = << Thrown(b.val) >>
                /\ outcome' = Rejected(b.val)
                /\ pc' = "done"
           [] b.kind = "return" ->
                /\ raced' = "settled"
                /\ events' = << "rule" >>
                /\ settled' = << Returned(b.val) >>
                /\ outcome' = Race(outcome, Resolved(b.val))
                /\ pc' = "done"
           [] OTHER ->
                /\ raced' = "pending"
                /\ pc' = "racing"
                /\ UNCHANGED <<events, settled, outcome>>
  /\ UNCHANGED <<op, rules, options, idx, inflight, order, tlog, retryVars, ctxVars,
                 memoVars, debugVars, logicVars, timeoutOpts>>

(* The rule's promise settles.                                             *)
TimeoutRuleSettle ==
  /\ op = "withTimeout" /\ raced = "pending"
  /\ raced' = "settled"
  /\ events' = Append(events, "rule")
  /\ settled' = << RawOutcome(rules[1].beh) >>
  /\ outcome' = Race(outcome, IF rules[1].beh.kind = "reject"
                                THEN Rejected(rules[1].beh.val)
                                ELSE Resolved(rules[1].beh.val))
  /\ pc' = "done"
  /\ UNCHANGED <<op, rules, options, idx, calls, inflight, order, tlog, retryVars, ctxVars,
                 memoVars, debugVars, logicVars, timeoutOpts, timer>>

(* The timer fires: the timeout promise resolves to fail(timeoutError).    *)
TimeoutFire ==
  /\ op = "withTimeout" /\ Len(timer) = 1 /\ ~timer[1].fired
  /\ timer' = << [timer[1] EXCEPT !.fired = TRUE] >>
  /\ events' = Append(events, "timer")
  /\ outcome' = Race(outcome, TimeoutResult(timeoutOpts.timeoutError))
  /\ pc' = "done"
  /\ UNCHANGED <<op, rules, options, idx, calls, inflight, settled, order, tlog, retryVars,
                 ctxVars, memoVars, debugVars, logicVars, timeoutOpts, raced>>

NextTimeout == TimeoutCall \/ TimeoutRuleSettle \/ TimeoutFire

SpecTimeout == TimeoutInit /\ [][NextTimeout]_vars

(***************************************************************************)
(* withMemoize(rule, keyFn, options).  The body of the memoized rule has   *)
(* no await: a call runs from the key derivation to the return in one      *)
(* step.  What is concurrent with the calls is the settling of the         *)
(* promises the underlying rule returned.                                  *)
(***************************************************************************)
(* The keys keyFn derives (any string, the empty one included).            *)
Keys == {"", "a"}

(* What the underlying rule may do on an invocation.                       *)
MemoBehaviours ==
  { Beh("return", pass), Beh("resolve", fail(Str("E1"))),
    Beh("throw", Err("Boom")), Beh("reject", Err("Boom")) }

MemoInit ==
  /\ op = "withMemoize"
  /\ memoOpts \in [ ttl : { NotGiven, Given(0), Given(1) },
                    maxSize : { NotGiven, Given(1), Given(2) } ]
  /\ options \in { NoOpts, Opts("unsafe", "unset") }
  /\ now = 0
  /\ cache = << >>
  /\ minvs = << >>
  /\ mcalls = << >>
  /\ pc = "idle"
  /\ outcome = Pending
  /\ rules = << >>
  /\ idx = 0
  /\ calls = << >>
  /\ inflight = {}
  /\ settled = << >>
  /\ order = << >>
  /\ tlog = << >>
  /\ RetryIdle /\ CtxIdle /\ TimeoutIdle /\ DebugIdle /\ LogicIdle

(* `if (options.ttl)` and `options.maxSize &&`: zero counts as not given.  *)
TtlSet == memoOpts.ttl.given /\ memoOpts.ttl.v # 0

MaxSizeSet == memoOpts.maxSize.given /\ memoOpts.maxSize.v # 0

CacheKeys(c) == { c[n].key : n \in 1..Len(c) }

CacheHas(c, k) == k \in CacheKeys(c)

CacheGet(c, k) == c[CHOOSE n \in 1..Len(c) : c[n].key = k]

CacheDelete(c, k) == SelectSeq(c, LAMBDA en : en.key # k)

(* The cleanup loop: every entry older than ttl is deleted.                *)
Sweep(c, t) ==
  IF TtlSet THEN SelectSeq(c, LAMBDA en : ~(t - en.timestamp > memoOpts.ttl.v))
  ELSE c

(* The size management: at capacity the first key of the Map is deleted,   *)
(* when that key is truthy.                                                *)
EvictOldest(c, k) ==
  IF MaxSizeSet /\ Len(c) >= memoOpts.maxSize.v /\ Len(c) > 0 /\ c[1].key # ""
    THEN Tail(c)
    ELSE c

(* What the normalized rule's invocation ends with.                        *)
MemoResult(b) == getNormalizedRule(RawOutcome(b), options)

(* How the invocation of the normalized rule stands when it returns: the   *)
(* safe wrapper always returns a pending promise; the rule itself may      *)
(* throw, return a value, or return a pending promise.                     *)
MemoInvoked(b) ==
  IF options.errorHandlingMode = "unsafe" /\ b.kind = "throw" THEN "threw"
  ELSE IF options.errorHandlingMode = "unsafe" /\ b.kind = "return" THEN "settled"
  ELSE "pending"

PendingInvocations == { i \in 1..Len(minvs) : minvs[i].state = "pending" }

(* A memoized rule whose cache also tells contexts apart: an entry made    *)
(* under another context is no hit.                                        *)
MemoCallKeyedByContext(k) ==
  /\ op = "withMemoize" /\ Len(mcalls) < MaxCalls
  /\ LET swept == Sweep(cache, now)
         sized == EvictOldest(swept, k)
         log == [key |-> k, ctx |-> context, at |-> now, before |-> cache,
                 swept |-> swept, sized |-> sized, pending |-> PendingInvocations]
     IN  IF CacheHas(sized, k) /\ minvs[CacheGet(sized, k).inv].ctx = context
           THEN /\ cache' = sized
                /\ mcalls' = Append(mcalls,
                     [hit |-> TRUE, inv |-> CacheGet(sized, k).inv,
                      stamp |-> CacheGet(sized, k).timestamp] @@ log)
                /\ UNCHANGED minvs
           ELSE \E b \in MemoBehaviours :
                  /\ minvs' = Append(minvs, [key |-> k, ctx |-> context, beh |-> b,
                                              state |-> MemoInvoked(b),
                                              cleanup |-> FALSE])
                  /\ cache' = IF MemoInvoked(b) = "threw" THEN sized
                              ELSE Append(CacheDelete(sized, k), [key |-> k, inv |-> Len(minvs) + 1,
                                                  timestamp |-> now])
                  /\ mcalls' = Append(mcalls,
                       [hit |-> FALSE, inv |-> Len(minvs) + 1, stamp |-> now] @@ log)
  /\ UNCHANGED <<op, pc, outcome, compVars, retryVars, ctxVars, timeoutVars, debugVars, logicVars, memoOpts, now>>

(* One call of the memoized rule with an input whose key is k.             *)
MemoCall(k) ==
  /\ op = "withMemoize" /\ Len(mcalls) < MaxCalls
  /\ LET swept == Sweep(cache, now)
         sized == EvictOldest(swept, k)
         log == [key |-> k, ctx |-> context, at |-> now, before |-> cache,
                 swept |-> swept, sized |-> sized, pending |-> PendingInvocations]
     IN  IF CacheHas(sized, k)
           THEN /\ cache' = sized
                /\ mcalls' = Append(mcalls,
                     [hit |-> TRUE, inv |-> CacheGet(sized, k).inv,
                      stamp |-> CacheGet(sized, k).timestamp] @@ log)
                /\ UNCHANGED minvs
           ELSE \E b \in MemoBehaviours :
                  /\ minvs' = Append(minvs, [key |-> k, ctx |-> context, beh |-> b,
                                              state |-> MemoInvoked(b),
                                              cleanup |-> FALSE])
                  /\ cache' = IF MemoInvoked(b) = "threw" THEN sized
                              ELSE Append(sized, [key |-> k, inv |-> Len(minvs) + 1,
                                                  timestamp |-> now])
                  /\ mcalls' = Append(mcalls,
                       [hit |-> FALSE, inv |-> Len(minvs) + 1, stamp |-> now] @@ log)
  /\ UNCHANGED <<op, pc, outcome, compVars, retryVars, ctxVars, timeoutVars, debugVars, logicVars, memoOpts, now>>

(* The promise of invocation i settles.  A rejection queues the reaction   *)
(* registered by `result.catch(...)`; reactions registered on the promise  *)
(* by others run before or after it, so a call can come in between.        *)
MemoSettle(i) ==
  /\ op = "withMemoize"
  /\ i \in PendingInvocations
  /\ minvs' = [minvs EXCEPT ![i].state = "settled",
                            ![i].cleanup = MemoResult(minvs[i].beh).out.kind = "throw"]
  /\ tlog' = tlog \o MemoResult(minvs[i].beh).tcalls
  /\ UNCHANGED <<op, pc, outcome, rules, options, idx, calls, inflight, settled, order,
                 retryVars, ctxVars, timeoutVars, debugVars, logicVars, memoOpts, now, cache,
                 mcalls>>

(* The reaction of a rejection runs: `() => cache.delete(key)`.            *)
MemoCleanup(i) ==
  /\ op = "withMemoize"
  /\ i \in 1..Len(minvs) /\ minvs[i].cleanup
  /\ minvs' = [minvs EXCEPT ![i].cleanup = FALSE]
  /\ cache' = CacheDelete(cache, minvs[i].key)
  /\ UNCHANGED <<op, pc, outcome, compVars, retryVars, ctxVars, timeoutVars, debugVars,
                 logicVars, memoOpts, now, mcalls>>

(* Time passes.  The rule reads the clock only to stamp entries and to     *)
(* compare their age with ttl, so time is followed only while a ttl is     *)
(* given and an entry is cached, up to the first instant at which an entry *)
(* stored at time 0 has outlived ttl.                                      *)
MemoTick ==
  /\ op = "withMemoize"
  /\ memoOpts.ttl.given /\ cache # << >>
  /\ now <= memoOpts.ttl.v
  /\ now' = now + 1
  /\ UNCHANGED <<op, pc, outcome, compVars, retryVars, ctxVars, timeoutVars, debugVars, logicVars, memoOpts,
                 cache, minvs, mcalls>>

NextMemo ==
  \/ \E k \in Keys : MemoCall(k)
  \/ \E i \in 1..MaxCalls : MemoSettle(i)
  \/ \E i \in 1..MaxCalls : MemoCleanup(i)
  \/ MemoTick

SpecMemo == MemoInit /\ [][NextMemo]_vars

(***************************************************************************)
(* The memoized rule called with changing contexts: between two calls the  *)
(* caller may take another context for the calls that follow.              *)
(***************************************************************************)
CallContexts == { Obj("ctx"), Undefined }

MemoCtxInit ==
  /\ MemoInit
  /\ ~memoOpts.ttl.given

MemoSwitchContext ==
  /\ op = "withMemoize" /\ Len(mcalls) < MaxCalls
  /\ context' \in CallContexts \ {context}
  /\ UNCHANGED <<op, pc, outcome, compVars, retryVars, cloneOpts, heap, currentContext, seen,
                 utilVars>>

NextMemoCtx ==
  \/ \E k \in Keys : MemoCall(k)
  \/ \E i \in 1..MaxCalls : MemoSettle(i)
  \/ \E i \in 1..MaxCalls : MemoCleanup(i)
  \/ MemoSwitchContext

SpecMemoCtx == MemoCtxInit /\ [][NextMemoCtx]_vars

(* What the promise returned by the n-th call of the memoized rule has     *)
(* settled with.                                                           *)
MemoCallOutcome(n) ==
  LET inv == minvs[mcalls[n].inv]
      r == MemoResult(inv.beh).out
  IN  IF inv.state = "pending" THEN Pending
      ELSE IF r.kind = "throw" THEN Rejected(r.val)
      ELSE Resolved(r.val)

(***************************************************************************)
(* oneOf(rules, options): the rules are tried in list order until one      *)
(* passes.  The rules are normalized with the options, and every rule is   *)
(* called with the caller's context.                                       *)
(***************************************************************************)
OneOfInit == CompInit({"oneOf"}) /\ RetryIdle /\ CtxIdle /\ UtilIdle

(* `rule(input, context)`: the child is handed the caller's own context.   *)
ReceiveContext(i) ==
  seen' = Append(seen, [rule |-> i, ref |-> context, read |-> Snapshot(heap, context)])

(* `result.error`: undefined when the value has no such property.          *)
ErrorOf(x) == IF "error" \in DOMAIN x THEN x.error ELSE Undefined

(* The caller calls the rule built by oneOf: an empty list passes at once. *)
OneOfCall ==
  /\ op = "oneOf" /\ pc = "idle"
  /\ errs' = << >>
  /\ idx' = 1
  /\ IF Len(rules) = 0
       THEN pc' = "done" /\ outcome' = Resolved(pass)
     ELSE pc' = "loop" /\ outcome' = outcome
  /\ UNCHANGED <<op, rules, options, calls, inflight, settled, order, tlog, retryVars, ctxVars,
                 memoVars, timeoutVars, debugVars, selector, evals, cases, defaultCase,
                 predicateErrorTransform>>

(* `rule(input, context)`: the next rule is invoked.                       *)
OneOfInvoke ==
  /\ op = "oneOf" /\ pc = "loop" /\ inflight = {}
  /\ idx <= Len(rules)
  /\ calls' = Append(calls, idx)
  /\ inflight' = {idx}
  /\ ReceiveContext(idx)
  /\ UNCHANGED <<op, pc, outcome, rules, options, idx, settled, order, tlog, retryVars,
                 context, cloneOpts, heap, currentContext, utilVars>>

(* A loop body that goes on to the next rule after a passed result.        *)
OneOfStepNoShortCircuit(r) ==
  /\ inflight' = {}
  /\ settled' = [settled EXCEPT ![idx] = r.out]
  /\ order' = Append(order, idx)
  /\ tlog' = tlog \o r.tcalls
  /\ IF r.out.kind = "throw"
       THEN pc' = "done" /\ outcome' = Rejected(r.out.val) /\ idx' = idx /\ errs' = errs
     ELSE IF ~CanReadStatus(r.out.val)
       THEN pc' = "done" /\ outcome' = Rejected(StatusTypeError(r.out.val)) /\ idx' = idx /\ errs' = errs
     ELSE IF StatusOf(r.out.val) = "passed"
       THEN pc' = pc /\ outcome' = outcome /\ idx' = idx + 1 /\ errs' = errs
     ELSE pc' = pc /\ outcome' = outcome /\ idx' = idx + 1
          /\ errs' = Append(errs, ErrorOf(r.out.val))

(* What the loop body does with what the awaited rule ended with: a passed *)
(* result ends the call with pass(), any other result has its `error`      *)
(* pushed.                                                                 *)
OneOfStep(r) ==
  /\ inflight' = {}
  /\ settled' = [settled EXCEPT ![idx] = r.out]
  /\ order' = Append(order, idx)
  /\ tlog' = tlog \o r.tcalls
  /\ IF r.out.kind = "throw"
       THEN pc' = "done" /\ outcome' = Rejected(r.out.val) /\ idx' = idx /\ errs' = errs
     ELSE IF ~CanReadStatus(r.out.val)
       THEN pc' = "done" /\ outcome' = Rejected(StatusTypeError(r.out.val)) /\ idx' = idx /\ errs' = errs
     ELSE IF StatusOf(r.out.val) = "passed"
       THEN pc' = "done" /\ outcome' = Resolved(pass) /\ idx' = idx /\ errs' = errs
     ELSE pc' = pc /\ outcome' = outcome /\ idx' = idx + 1
          /\ errs' = Append(errs, ErrorOf(r.out.val))

(* What awaiting the element normalized by getNormalizedRules(rules,       *)
(* options) ends with.                                                     *)
OneOfElem(el, opts) ==
  LET inner == ElemOutcome(el)
      outer == getNormalizedRules(inner.out, opts)
  IN  [out |-> outer.out, tcalls |-> inner.tcalls \o outer.tcalls]

(* `await` resumes with the rule's result.                                 *)
OneOfSettle ==
  /\ op = "oneOf" /\ pc = "loop" /\ inflight = {idx}
  /\ OneOfStep(OneOfElem(rules[idx], options))
  /\ UNCHANGED <<op, rules, options, calls, retryVars, ctxVars,
                 memoVars, timeoutVars, debugVars, selector, evals, cases, defaultCase,
                 predicateErrorTransform>>

(* The loop ran out of rules: `return fail(errors)`.                       *)
OneOfFinish ==
  /\ op = "oneOf" /\ pc = "loop" /\ inflight = {}
  /\ idx > Len(rules)
  /\ pc' = "done"
  /\ outcome' = Resolved(fail(Arr(errs)))
  /\ UNCHANGED <<op, compVars, retryVars, ctxVars, utilVars>>

NextOneOf == OneOfCall \/ OneOfInvoke \/ OneOfSettle \/ OneOfFinish

SpecOneOf == OneOfInit /\ [][NextOneOf]_vars

(***************************************************************************)
(* match(accessor, cases, defaultCase, options): the accessor yields a     *)
(* key, and the rule found under that key, or the default, is run.  The    *)
(* calls log holds the name of what was invoked: the key of a case,        *)
(* "default", or the name of a function inherited by the cases object.     *)
(***************************************************************************)
(* The keys the accessor may yield.  "a" and "b" may be keys of the cases  *)
(* object; "toString" is a property every plain object inherits.           *)
MatchKeys == {"a", "b", "toString"}

CaseKeys == {"a", "b"}

(* Object.prototype, as far as `cases[key]` can reach it: toString called  *)
(* as a plain function returns "[object Undefined]".                       *)
ObjectPrototype ==
  [toString |-> Elem(Beh("return", Str("[object Undefined]")), "raw")]

MatchRuleSet ==
  { Elem(Beh("return", pass), "raw"),
    Elem(Beh("resolve", fail(Str("E1"))), "raw"),
    Elem(Beh("throw", Err("Boom")), "raw"),
    Elem(Beh("return", Undefined), "raw") }

(* isRule(value): typeof value === "function" *)
isRule(x) == "beh" \in DOMAIN x

MatchInit ==
  /\ op = "match"
  /\ rules = << >>
  /\ options \in OptionSet
  /\ pc = "idle"
  /\ idx = 0
  /\ calls = << >>
  /\ inflight = {}
  /\ settled = << >>
  /\ order = << >>
  /\ tlog = << >>
  /\ outcome = Pending
  /\ errs = << >>
  /\ selector \in { Beh(k, Str(key)) : k \in {"return", "resolve"}, key \in MatchKeys }
                    \cup { Beh("throw", Err("Boom")) }
  /\ evals = << >>
  /\ cases \in UNION { [S -> MatchRuleSet] : S \in SUBSET CaseKeys }
  /\ defaultCase \in {Undefined, Null, Str("Invalid role")} \cup MatchRuleSet
  /\ predicateErrorTransform = "unset"
  /\ RetryIdle /\ CtxIdle /\ MemoIdle /\ TimeoutIdle /\ DebugIdle

(* `cases[key]`: the own property, else the inherited one, else undefined. *)
CaseLookup(key) ==
  IF key \in DOMAIN cases THEN [found |-> TRUE, name |-> key, rule |-> cases[key]]
  ELSE IF key \in DOMAIN ObjectPrototype
    THEN [found |-> TRUE, name |-> "Object.prototype." \o key, rule |-> ObjectPrototype[key]]
  ELSE [found |-> FALSE]

(* The rule invoked under a name of the calls log.                         *)
RuleNamed(name) ==
  IF name = "default" THEN defaultCase
  ELSE IF name \in DOMAIN cases THEN cases[name]
  ELSE ObjectPrototype["toString"]

(* The caller calls the rule built by match: `accessor(input, context)`.   *)
MatchCall ==
  /\ op = "match" /\ pc = "idle"
  /\ pc' = "accessor"
  /\ evals' = Append(evals, [input |-> "input", context |-> context])
  /\ UNCHANGED <<op, outcome, compVars, retryVars, ctxVars, memoVars, timeoutVars, debugVars,
                 errs, selector, cases, defaultCase, predicateErrorTransform>>

(* Invoking the selected rule with (input, context).                       *)
MatchInvoke(name) ==
  /\ pc' = "rule"
  /\ calls' = Append(calls, name)
  /\ inflight' = {name}
  /\ seen' = Append(seen, [rule |-> name, ref |-> context, read |-> Snapshot(heap, context)])
  /\ outcome' = outcome

(* Returning without invoking a rule.                                      *)
MatchReturn(o) ==
  /\ pc' = "done"
  /\ outcome' = o
  /\ UNCHANGED <<calls, inflight, seen>>

(* `await accessor(...)` resumes: the case, the default or the generated   *)
(* failure.                                                                *)
MatchDispatch ==
  /\ op = "match" /\ pc = "accessor"
  /\ IF selector.kind \in {"throw", "reject"}
       THEN MatchReturn(Rejected(selector.val))
     ELSE LET key == selector.val.v
              matchedRule == CaseLookup(key)
          IN  IF matchedRule.found THEN MatchInvoke(matchedRule.name)
              ELSE IF defaultCase # Undefined
                THEN IF ~isRule(defaultCase) THEN MatchReturn(Resolved(fail(defaultCase)))
                     ELSE MatchInvoke("default")
              ELSE MatchReturn(Resolved(fail(Str("No matching rule for key: " \o key))))
  /\ UNCHANGED <<op, rules, options, idx, settled, order, tlog, retryVars,
                 context, cloneOpts, heap, currentContext, utilVars>>

(* The promise of the normalized rule settles, and the call with it.       *)
MatchSettle ==
  /\ op = "match" /\ pc = "rule"
  /\ LET name == calls[Len(calls)]
         inner == ElemOutcome(RuleNamed(name))
         r == getNormalizedRule(inner.out, options)
     IN  /\ order' = Append(order, name)
         /\ tlog' = tlog \o inner.tcalls \o r.tcalls
         /\ outcome' = IF r.out.kind = "throw" THEN Rejected(r.out.val)
                       ELSE Resolved(r.out.val)
  /\ inflight' = {}
  /\ pc' = "done"
  /\ UNCHANGED <<op, rules, options, idx, calls, settled, retryVars, ctxVars, utilVars>>

NextMatch == MatchCall \/ MatchDispatch \/ MatchSettle

SpecMatch == MatchInit /\ [][NextMatch]_vars

(***************************************************************************)
(* withSafePredicate(predicate, errorTransform): the predicate it returns  *)
(* never throws.  "unset" is the default parameter value; "custom" is the  *)
(* transform of the example: err => `Predicate failed: ${String(err)}`.    *)
(***************************************************************************)
(* withSafePredicate's default errorTransform *)
DefaultPredicateErrorTransform(e) ==
  IF TypeOf(e) = "object" /\ e # Null THEN e
  ELSE IF InstanceOfError(e) THEN Str(e.v) ELSE Str(StringOf(e))

CustomPredicateErrorTransform(e) == Str("Predicate failed: " \o StringOf(e))

ApplyPredicateTransform(ptf, e) ==
  IF ptf = "unset" THEN DefaultPredicateErrorTransform(e)
  ELSE CustomPredicateErrorTransform(e)

NotBooleanError(x) == Err("Predicate must return boolean, got " \o TypeOf(x))

(* A wrapper that takes any resolved value by its truthiness.              *)
withSafePredicateCoerces(out, ptf) ==
  IF out.kind = "throw"
    THEN [status |-> "failed", error |-> ApplyPredicateTransform(ptf, out.val),
          tcalls |-> << [fn |-> "predicate." \o ptf, arg |-> out.val] >>]
  ELSE [status |-> "passed", value |-> Truthy(out.val), tcalls |-> << >>]

(* Given what the predicate ended with, the PredicateResult of the wrapper *)
(* and the arguments errorTransform was called with.                       *)
withSafePredicate(out, ptf) ==
  IF out.kind = "throw"
    THEN [status |-> "failed", error |-> ApplyPredicateTransform(ptf, out.val),
          tcalls |-> << [fn |-> "predicate." \o ptf, arg |-> out.val] >>]
  ELSE IF TypeOf(out.val) = "boolean"
    THEN [status |-> "passed", value |-> (out.val.v = "true"), tcalls |-> << >>]
  ELSE [status |-> "failed",
        error |-> ApplyPredicateTransform(ptf, NotBooleanError(out.val)),
        tcalls |-> << [fn |-> "predicate." \o ptf, arg |-> NotBooleanError(out.val)] >>]

(***************************************************************************)
(* when(predicate, rule, options), unless(predicate, rule, options) and    *)
(* ifElse(predicate, ifRule, elseRule, options).  rules holds the rule of  *)
(* when and unless, and <<ifRule>> or <<ifRule, elseRule>> for ifElse.     *)
(***************************************************************************)
Conditionals == {"when", "unless", "ifElse"}

PredicateBehaviours ==
  { Beh(k, v) : k \in {"return", "resolve"},
                v \in {Bool("true"), Bool("false"), Num("1"), Str(""), Undefined, Null} }
    \cup { Beh("throw", Err("Condition failed")), Beh("reject", Str("oops")) }

CondRuleSet ==
  { Elem(Beh("return", pass), "raw"),
    Elem(Beh("resolve", fail(Str("E1"))), "raw"),
    Elem(Beh("throw", Err("Rule failed")), "raw") }

CondInit ==
  /\ op \in Conditionals
  /\ rules \in IF op = "ifElse" THEN [1..1 -> CondRuleSet] \cup [1..2 -> CondRuleSet]
               ELSE [1..1 -> CondRuleSet]
  /\ options \in OptionSet
  /\ pc = "idle"
  /\ idx = 0
  /\ calls = << >>
  /\ inflight = {}
  /\ settled = [i \in 1..Len(rules) |-> NotSettled]
  /\ order = << >>
  /\ tlog = << >>
  /\ outcome = Pending
  /\ errs = << >>
  /\ selector \in PredicateBehaviours
  /\ evals = << >>
  /\ cases = << >>
  /\ defaultCase = Undefined
  /\ predicateErrorTransform \in Transforms
  /\ RetryIdle /\ CtxIdle /\ MemoIdle /\ TimeoutIdle /\ DebugIdle

(* The caller calls the conditional rule: `predicate(input, context)` is   *)
(* evaluated inside the safe wrapper.                                      *)
CondCall ==
  /\ op \in Conditionals /\ pc = "idle"
  /\ pc' = "predicate"
  /\ evals' = Append(evals, [input |-> "input", context |-> context])
  /\ UNCHANGED <<op, outcome, compVars, retryVars, ctxVars, memoVars, timeoutVars, debugVars,
                 errs, selector, cases, defaultCase, predicateErrorTransform>>

(* A selection that takes the other branch.                                *)
SelectedInverted(o, value) ==
  CASE o = "when" -> IF value THEN 0 ELSE 1
    [] o = "unless" -> IF value THEN 1 ELSE 0
    [] o = "ifElse" -> IF value THEN (IF Len(rules) = 2 THEN 2 ELSE 0) ELSE 1

(* The index of the rule the conditional invokes for the predicate's       *)
(* value, 0 when it returns pass() instead.                                *)
Selected(o, value) ==
  CASE o = "when" -> IF value THEN 1 ELSE 0
    [] o = "unless" -> IF value THEN 0 ELSE 1
    [] o = "ifElse" -> IF value THEN 1 ELSE (IF Len(rules) = 2 THEN 2 ELSE 0)

(* `await safePredicate(...)` resumes: a failed predicate result ends the  *)
(* call, a boolean selects the branch.                                     *)
CondBranch ==
  /\ op \in Conditionals /\ pc = "predicate"
  /\ LET p == withSafePredicate(RawOutcome(selector), predicateErrorTransform)
     IN  /\ tlog' = tlog \o p.tcalls
         /\ IF p.status = "failed"
              THEN /\ pc' = "done" /\ outcome' = Resolved(fail(p.error))
                   /\ UNCHANGED <<idx, calls, inflight, seen>>
            ELSE IF Selected(op, p.value) = 0
              THEN /\ pc' = "done" /\ outcome' = Resolved(pass)
                   /\ UNCHANGED <<idx, calls, inflight, seen>>
            ELSE /\ pc' = "rule" /\ outcome' = outcome
                 /\ idx' = Selected(op, p.value)
                 /\ calls' = Append(calls, idx')
                 /\ inflight' = {idx'}
                 /\ ReceiveContext(idx')
  /\ UNCHANGED <<op, rules, options, settled, order, retryVars,
                 context, cloneOpts, heap, currentContext, utilVars>>

(* The promise of the normalized branch settles, and the call with it.     *)
CondSettle ==
  /\ op \in Conditionals /\ pc = "rule"
  /\ LET inner == ElemOutcome(rules[idx])
         r == IF op = "ifElse" THEN getNormalizedRules(inner.out, options)
              ELSE getNormalizedRule(inner.out, options)
     IN  /\ settled' = [settled EXCEPT ![idx] = r.out]
         /\ order' = Append(order, idx)
         /\ tlog' = tlog \o inner.tcalls \o r.tcalls
         /\ outcome' = IF r.out.kind = "throw" THEN Rejected(r.out.val)
                       ELSE Resolved(r.out.val)
  /\ inflight' = {}
  /\ pc' = "done"
  /\ UNCHANGED <<op, rules, options, idx, calls, retryVars, ctxVars, utilVars>>

NextCond == CondCall \/ CondBranch \/ CondSettle

SpecCond == CondInit /\ [][NextCond]_vars

(***************************************************************************)
(* withDebug(rule, options): the callbacks of the configuration are called *)
(* around the rule, all inside one try block.  A callback is "unset" (not  *)
(* supplied), "ok" (returns) or "throws".  The trace lists the callbacks   *)
(* and the rule in the order they were called, with the result or error    *)
(* handed to the callback.                                                 *)
(***************************************************************************)
CallbackKinds == {"unset", "ok", "throws"}

(* What a throwing callback throws.                                        *)
CallbackError(name) == Err(name \o " failed")

TraceEvent(name, arg) == [cb |-> name, arg |-> arg, context |-> context]

DebugInit ==
  /\ op = "withDebug"
  /\ \E b \in LeafBehaviours : rules = << Elem(b, "raw") >>
  /\ debugOpts \in [onStart : CallbackKinds, onEnd : CallbackKinds, onError : CallbackKinds]
  /\ trace = << >>
  /\ pc = "idle"
  /\ outcome = Pending
  /\ options = NoOpts
  /\ idx = 0
  /\ calls = << >>
  /\ inflight = {}
  /\ settled = << NotSettled >>
  /\ order = << >>
  /\ tlog = << >>
  /\ RetryIdle /\ CtxIdle /\ MemoIdle /\ TimeoutIdle /\ LogicIdle

(* `config.onX?.(...)`: the trace after the optional call.                 *)
CallIfSet(tr, name, arg) ==
  IF debugOpts[name] = "unset" THEN tr ELSE Append(tr, TraceEvent(name, arg))

(* The catch block: `config.onError?.(error, ...); throw error;`.          *)
DebugCatch(tr, e) ==
  [trace |-> CallIfSet(tr, "onError", e),
   outcome |-> IF debugOpts.onError = "throws" THEN Rejected(CallbackError("onError"))
               ELSE Rejected(e)]

(* The debugged rule is called: onStart, then the rule; what is thrown on  *)
(* the way goes to the catch block.                                        *)
DebugCall ==
  /\ op = "withDebug" /\ pc = "idle"
  /\ LET started == CallIfSet(trace, "onStart", Undefined)
         invoked == Append(started, TraceEvent("rule", Undefined))
     IN  IF debugOpts.onStart = "throws"
           THEN LET c == DebugCatch(started, CallbackError("onStart"))
                IN  /\ trace' = c.trace /\ outcome' = c.outcome /\ pc' = "done"
                    /\ UNCHANGED <<calls, inflight, settled, order>>
         ELSE IF ThrowsSync(rules[1])
           THEN LET c == DebugCatch(invoked, rules[1].beh.val)
                IN  /\ trace' = c.trace /\ outcome' = c.outcome /\ pc' = "done"
                    /\ calls' = Append(calls, 1)
                    /\ settled' = [settled EXCEPT ![1] = Thrown(rules[1].beh.val)]
                    /\ order' = Append(order, 1)
                    /\ UNCHANGED inflight
         ELSE /\ trace' = invoked /\ outcome' = outcome /\ pc' = "awaiting"
              /\ calls' = Append(calls, 1)
              /\ inflight' = {1}
              /\ UNCHANGED <<settled, order>>
  /\ UNCHANGED <<op, rules, options, idx, tlog, retryVars, ctxVars, memoVars, timeoutVars,
                 logicVars, debugOpts>>

(* `await rule(...)` resumes: onEnd and `return result`, or the catch      *)
(* block.                                                                  *)
DebugSettle ==
  /\ op = "withDebug" /\ pc = "awaiting"
  /\ LET out == RawOutcome(rules[1].beh)
         ended == CallIfSet(trace, "onEnd", out.val)
         c == IF out.kind = "throw" THEN DebugCatch(trace, out.val)
              ELSE IF debugOpts.onEnd = "throws"
                THEN DebugCatch(ended, CallbackError("onEnd"))
              ELSE [trace |-> ended, outcome |-> Resolved(out.val)]
     IN  /\ trace' = c.trace
         /\ outcome' = c.outcome
         /\ settled' = [settled EXCEPT ![1] = out]
  /\ order' = Append(order, 1)
  /\ inflight' = {}
  /\ pc' = "done"
  /\ UNCHANGED <<op, rules, options, idx, calls, tlog, retryVars, ctxVars, memoVars, timeoutVars,
                 logicVars, debugOpts>>

NextDebug == DebugCall \/ DebugSettle

SpecDebug == DebugInit /\ [][NextDebug]_vars

(***************************************************************************)
(* withTap(effect, options)(rule) and the standalone tap(effect).  The     *)
(* selector is the behaviour of the effect, evals its invocations; the     *)
(* trace lists the rule, the effect and console.error in call order.       *)
(***************************************************************************)
Taps == {"withTap", "tap"}

EffectBehaviours ==
  { Beh("return", Undefined), Beh("resolve", Undefined), Beh("return", Str("ignored")),
    Beh("throw", Err("Effect failed")), Beh("reject", Err("Effect failed")) }

TapInit ==
  /\ op \in Taps
  /\ IF op = "tap" THEN rules = << >>
     ELSE \E b \in LeafBehaviours : rules = << Elem(b, "raw") >>
  /\ options \in IF op = "tap" THEN {NoOpts} ELSE OptionSet
  /\ pc = "idle"
  /\ idx = 0
  /\ calls = << >>
  /\ inflight = {}
  /\ settled = [i \in 1..Len(rules) |-> NotSettled]
  /\ order = << >>
  /\ tlog = << >>
  /\ outcome = Pending
  /\ errs = << >>
  /\ selector \in EffectBehaviours
  /\ evals = << >>
  /\ cases = << >>
  /\ defaultCase = Undefined
  /\ predicateErrorTransform = "unset"
  /\ debugOpts = [onStart |-> "unset", onEnd |-> "unset", onError |-> "unset"]
  /\ trace = << >>
  /\ RetryIdle /\ CtxIdle /\ MemoIdle /\ TimeoutIdle

(* A catch block that rethrows what the effect threw.                      *)
TapCaughtRethrows(tr, result) ==
  [trace |-> Append(tr, TraceEvent("console.error", selector.val)),
   outcome |-> Rejected(selector.val)]

(* `catch (error) { console.error("Tap effect failed:", error); }` and the *)
(* `return` after it.                                                      *)
TapCaught(tr, result) ==
  [trace |-> Append(tr, TraceEvent("console.error", selector.val)),
   outcome |-> Resolved(result)]

(* `await effect(...)`: the effect is called; one that throws              *)
(* synchronously is caught at once, any other is awaited.                  *)
TapEffect(tr, args, result) ==
  /\ evals' = Append(evals, args)
  /\ IF selector.kind = "throw"
       THEN LET c == TapCaught(Append(tr, TraceEvent("effect", result)), result)
            IN  trace' = c.trace /\ outcome' = c.outcome /\ pc' = "done"
     ELSE /\ trace' = Append(tr, TraceEvent("effect", result))
          /\ outcome' = outcome /\ pc' = "effect"

(* The caller calls the rule: withTap calls the normalized rule, tap its   *)
(* effect.                                                                 *)
TapCall ==
  /\ op \in Taps /\ pc = "idle"
  /\ IF op = "tap"
       THEN /\ TapEffect(trace, [input |-> "input", context |-> context], pass)
            /\ UNCHANGED <<calls, inflight>>
     ELSE /\ calls' = Append(calls, 1)
          /\ inflight' = {1}
          /\ trace' = Append(trace, TraceEvent("rule", Undefined))
          /\ pc' = "awaiting"
          /\ UNCHANGED <<outcome, evals>>
  /\ UNCHANGED <<op, rules, options, idx, settled, order, tlog, retryVars, ctxVars, memoVars,
                 timeoutVars, debugOpts, errs, selector, cases, defaultCase,
                 predicateErrorTransform>>

(* `await safeRule(input, context)` resumes: a rejection ends the call,    *)
(* a result is handed to the effect.                                       *)
TapRuleSettle ==
  /\ op = "withTap" /\ pc = "awaiting"
  /\ LET inner == ElemOutcome(rules[1])
         r == getNormalizedRule(inner.out, options)
     IN  /\ settled' = [settled EXCEPT ![1] = r.out]
         /\ tlog' = tlog \o inner.tcalls \o r.tcalls
         /\ IF r.out.kind = "throw"
              THEN /\ pc' = "done" /\ outcome' = Rejected(r.out.val)
                   /\ UNCHANGED <<evals, trace>>
            ELSE TapEffect(trace, [input |-> "input", result |-> r.out.val,
                                   context |-> context], r.out.val)
  /\ order' = Append(order, 1)
  /\ inflight' = {}
  /\ UNCHANGED <<op, rules, options, idx, calls, retryVars, ctxVars, memoVars, timeoutVars,
                 debugOpts, errs, selector, cases, defaultCase, predicateErrorTransform>>

(* `await effect(...)` resumes: a rejection is caught and logged; the      *)
(* result is returned.                                                     *)
TapEffectSettle ==
  /\ op \in Taps /\ pc = "effect"
  /\ LET result == IF op = "tap" THEN pass ELSE settled[1].val
         c == IF selector.kind = "reject" THEN TapCaught(trace, result)
              ELSE [trace |-> trace, outcome |-> Resolved(result)]
     IN  trace' = c.trace /\ outcome' = c.outcome
  /\ pc' = "done"
  /\ UNCHANGED <<op, compVars, retryVars, ctxVars, memoVars, timeoutVars, debugOpts, logicVars>>

NextTap == TapCall \/ TapRuleSettle \/ TapEffectSettle

SpecTap == TapInit /\ [][NextTap]_vars

(***************************************************************************)
(* withLazyContext(loader, rule).  The selector is the behaviour of the    *)
(* loader, evals its invocations; seen holds the context the rule was      *)
(* handed.                                                                 *)
(***************************************************************************)
LoaderBehaviours ==
  { Beh(k, v) : k \in {"return", "resolve"}, v \in {Obj("ctx"), Undefined} }
    \cup { Beh(k, v) : k \in {"throw", "reject"}, v \in {Err("DB down"), Str("oops"), Null} }

LazyInit ==
  /\ op = "withLazyContext"
  /\ \E b \in LeafBehaviours : rules = << Elem(b, "raw") >>
  /\ options = NoOpts
  /\ pc = "idle"
  /\ idx = 0
  /\ calls = << >>
  /\ inflight = {}
  /\ settled = << NotSettled >>
  /\ order = << >>
  /\ tlog = << >>
  /\ outcome = Pending
  /\ errs = << >>
  /\ selector \in LoaderBehaviours
  /\ evals = << >>
  /\ cases = << >>
  /\ defaultCase = Undefined
  /\ predicateErrorTransform = "unset"
  /\ RetryIdle /\ CtxIdle /\ MemoIdle /\ TimeoutIdle /\ DebugIdle

(* A catch block that fails with the caught value itself.                  *)
LazyCaughtKeepsValue(e) == Resolved(fail(e))

(* The catch block: fail(error.message) for an Error, else                 *)
(* fail("Context loading failed").                                         *)
LazyCaught(e) ==
  Resolved(fail(IF InstanceOfError(e) THEN Str(e.v) ELSE Str("Context loading failed")))

(* The lazy rule is called: `loader(input)`; a loader that throws          *)
(* synchronously is caught at once.                                        *)
LazyCall ==
  /\ op = "withLazyContext" /\ pc = "idle"
  /\ evals' = Append(evals, [input |-> "input"])
  /\ IF selector.kind = "throw"
       THEN pc' = "done" /\ outcome' = LazyCaught(selector.val)
     ELSE pc' = "loading" /\ outcome' = outcome
  /\ UNCHANGED <<op, compVars, retryVars, ctxVars, memoVars, timeoutVars, debugVars,
                 errs, selector, cases, defaultCase, predicateErrorTransform>>

(* `await loader(input)` resumes: a rejection is caught; otherwise         *)
(* `return rule(input, context)`, still inside the try block, so a rule    *)
(* that throws synchronously is caught too.                                *)
LazyLoaded ==
  /\ op = "withLazyContext" /\ pc = "loading"
  /\ IF selector.kind = "reject"
       THEN /\ pc' = "done" /\ outcome' = LazyCaught(selector.val)
            /\ UNCHANGED <<calls, inflight, settled, order, seen>>
     ELSE /\ calls' = Append(calls, 1)
          /\ seen' = Append(seen, [rule |-> 1, ref |-> selector.val,
                                   read |-> Snapshot(heap, selector.val)])
          /\ IF ThrowsSync(rules[1])
               THEN /\ pc' = "done" /\ outcome' = LazyCaught(rules[1].beh.val)
                    /\ settled' = [settled EXCEPT ![1] = Thrown(rules[1].beh.val)]
                    /\ order' = Append(order, 1)
                    /\ UNCHANGED inflight
             ELSE /\ pc' = "awaiting" /\ outcome' = outcome
                  /\ inflight' = {1}
                  /\ UNCHANGED <<settled, order>>
  /\ UNCHANGED <<op, rules, options, idx, tlog, retryVars, context, cloneOpts, heap,
                 currentContext, utilVars>>

(* The promise the rule returned settles, and the call with it.            *)
LazySettle ==
  /\ op = "withLazyContext" /\ pc = "awaiting"
  /\ LET out == RawOutcome(rules[1].beh)
     IN  /\ settled' = [settled EXCEPT ![1] = out]
         /\ outcome' = IF out.kind = "throw" THEN Rejected(out.val) ELSE Resolved(out.val)
  /\ order' = Append(order, 1)
  /\ inflight' = {}
  /\ pc' = "done"
  /\ UNCHANGED <<op, rules, options, idx, calls, tlog, retryVars, ctxVars, utilVars>>

NextLazy == LazyCall \/ LazyLoaded \/ LazySettle

SpecLazy == LazyInit /\ [][NextLazy]_vars

(***************************************************************************)
(* not(rule, error, options): the returned rule awaits the normalized rule *)
(* and inverts its result.  errs holds the error not was given.            *)
(***************************************************************************)
NotErrors == { Str("Inverted error"), Bool("false") }

NotInit ==
  /\ op = "not"
  /\ \E b \in LeafBehaviours : rules = << Elem(b, "raw") >>
  /\ options \in OptionSet
  /\ pc = "idle"
  /\ idx = 0
  /\ calls = << >>
  /\ inflight = {}
  /\ settled = << NotSettled >>
  /\ order = << >>
  /\ tlog = << >>
  /\ outcome = Pending
  /\ \E e \in NotErrors : errs = << e >>
  /\ selector = Beh("return", Undefined)
  /\ evals = << >>
  /\ cases = << >>
  /\ defaultCase = Undefined
  /\ predicateErrorTransform = "unset"
  /\ RetryIdle /\ CtxIdle /\ MemoIdle /\ TimeoutIdle /\ DebugIdle

(* `result.status === "passed" ? fail(error) : pass()`; reading the status *)
(* of undefined or null is a TypeError, which rejects the call.            *)
NotInvert(result, error) ==
  IF ~CanReadStatus(result) THEN Rejected(StatusTypeError(result))
  ELSE IF StatusOf(result) = "passed" THEN Resolved(fail(error))
  ELSE Resolved(pass)

(* The caller calls the inverted rule, which calls the normalized rule     *)
(* with the input and the context.                                         *)
NotCall ==
  /\ op = "not" /\ pc = "idle"
  /\ calls' = Append(calls, 1)
  /\ inflight' = {1}
  /\ evals' = Append(evals, [input |-> "input", context |-> context])
  /\ pc' = "awaiting"
  /\ UNCHANGED <<op, rules, options, idx, settled, order, tlog, outcome, retryVars, ctxVars,
                 memoVars, timeoutVars, debugVars, errs, selector, cases, defaultCase,
                 predicateErrorTransform>>

(* `await normalizedRule(input, context)` resumes: what the rule threw or  *)
(* rejected with rejects the call, a result is inverted.                   *)
NotSettle ==
  /\ op = "not" /\ pc = "awaiting"
  /\ LET inner == ElemOutcome(rules[1])
         r == getNormalizedRule(inner.out, options)
     IN  /\ settled' = << r.out >>
         /\ tlog' = tlog \o inner.tcalls \o r.tcalls
         /\ outcome' = IF r.out.kind = "throw" THEN Rejected(r.out.val)
                       ELSE NotInvert(r.out.val, errs[1])
  /\ order' = Append(order, 1)
  /\ inflight' = {}
  /\ pc' = "done"
  /\ UNCHANGED <<op, rules, options, idx, calls, retryVars, ctxVars, memoVars, timeoutVars,
                 debugVars, errs, selector, evals, cases, defaultCase,
                 predicateErrorTransform>>

NextNot == NotCall \/ NotSettle

SpecNot == NotInit /\ [][NextNot]_vars

(***************************************************************************)
(* inject(dependency, rule): the factory is applied to the dependency at   *)
(* construction; the returned rule calls the configured rule.  trace holds *)
(* the calls of the factory, evals the arguments of the calls of the       *)
(* returned rule, seen the arguments the configured rule received.         *)
(***************************************************************************)
InjectInputs == { Str("valid"), Str("invalid") }

Dependency == Obj("dependency")

InjectInit ==
  /\ op = "inject"
  /\ \E b \in LeafBehaviours : rules = << Elem(b, "raw") >>
  /\ options = NoOpts
  /\ pc = "idle"
  /\ idx = 0
  /\ calls = << >>
  /\ inflight = {}
  /\ settled = << NotSettled >>
  /\ order = << >>
  /\ tlog = << >>
  /\ outcome = Pending
  /\ context \in CallContexts
  /\ cloneOpts = NoCloneOpts
  /\ heap = InitialHeap
  /\ currentContext = Undefined
  /\ seen = << >>
  /\ trace = << [cb |-> "factory", arg |-> Dependency] >>
  /\ debugOpts = [onStart |-> "unset", onEnd |-> "unset", onError |-> "unset"]
  /\ RetryIdle /\ MemoIdle /\ TimeoutIdle /\ LogicIdle

(* `(input) => configuredRule(input)`: the configured rule is called with  *)
(* the input alone, so its context parameter is undefined.                 *)
InjectCall(input) ==
  /\ op = "inject" /\ pc = "idle" /\ Len(calls) < MaxCalls
  /\ calls' = Append(calls, 1)
  /\ inflight' = {1}
  /\ evals' = Append(evals, [input |-> input, context |-> context])
  /\ seen' = Append(seen, [rule |-> 1, input |-> input, ref |-> Undefined])
  /\ outcome' = Pending
  /\ pc' = "awaiting"
  /\ UNCHANGED <<op, rules, options, idx, settled, order, tlog, retryVars, context, cloneOpts,
                 heap, currentContext, memoVars, timeoutVars, debugVars, errs, selector,
                 cases, defaultCase, predicateErrorTransform>>

(* What the configured rule returned settles; it is the call's outcome.    *)
InjectSettle ==
  /\ op = "inject" /\ pc = "awaiting"
  /\ LET r == ElemOutcome(rules[1])
     IN  /\ settled' = << r.out >>
         /\ outcome' = IF r.out.kind = "throw" THEN Rejected(r.out.val)
                       ELSE Resolved(r.out.val)
  /\ order' = Append(order, 1)
  /\ inflight' = {}
  /\ pc' = "idle"
  /\ UNCHANGED <<op, rules, options, idx, calls, tlog, retryVars, ctxVars, utilVars>>

NextInject == (\E input \in InjectInputs : InjectCall(input)) \/ InjectSettle

SpecInject == InjectInit /\ [][NextInject]_vars

(***************************************************************************)
(* withRetry(withMemoize(rule, keyFn), options): every attempt of the      *)
(* retrying rule calls the memoized rule with the input of the call, hence *)
(* with one key.  The delay between two attempts advances the clock the    *)
(* memoized rule reads.                                                    *)
(***************************************************************************)
RetryMemoKey == "a"

RetryMemoInit ==
  /\ op = "withRetry(withMemoize)"
  /\ retryOpts \in
       [ attempts : { Given(n) : n \in 0..MaxAttempts },
         delayMs : { NotGiven, Given(0), Given(10) },
         retryStrategy : {"unset"},
         shouldRetry : {"unset", "never"} ]
  /\ memoOpts \in [ ttl : { NotGiven, Given(5), Given(300000) },
                    maxSize : { NotGiven, Given(1) } ]
  /\ options \in { NoOpts, Opts("unsafe", "unset") }
  /\ attempt = 0
  /\ lastError = Undefined
  /\ history = << >>
  /\ consulted = << >>
  /\ delays = << >>
  /\ now = 0
  /\ cache = << >>
  /\ minvs = << >>
  /\ mcalls = << >>
  /\ pc = "idle"
  /\ outcome = Pending
  /\ rules = << >>
  /\ idx = 0
  /\ calls = << >>
  /\ inflight = {}
  /\ settled = << >>
  /\ order = << >>
  /\ tlog = << >>
  /\ CtxIdle /\ TimeoutIdle /\ DebugIdle /\ LogicIdle

(* The retrying rule is called: `let attempt = 1`.                         *)
RetryMemoCall ==
  /\ op = "withRetry(withMemoize)" /\ pc = "idle"
  /\ attempt' = 1
  /\ pc' = "check"
  /\ UNCHANGED <<op, outcome, compVars, ctxVars, utilVars, retryOpts, lastError, history,
                 consulted, delays>>

(* `await rule(input, context)` of the retry loop calls the memoized rule: *)
(* sweep, size management, then the cached result or a new invocation.     *)
RetryMemoAttempt ==
  /\ op = "withRetry(withMemoize)" /\ pc = "check"
  /\ MoreAttempts(attempt)
  /\ LET k == RetryMemoKey
         swept == Sweep(cache, now)
         sized == EvictOldest(swept, k)
         log == [key |-> k, ctx |-> context, at |-> now, before |-> cache,
                 swept |-> swept, sized |-> sized, pending |-> PendingInvocations]
     IN  IF CacheHas(sized, k)
           THEN /\ cache' = sized
                /\ mcalls' = Append(mcalls,
                     [hit |-> TRUE, inv |-> CacheGet(sized, k).inv,
                      stamp |-> CacheGet(sized, k).timestamp] @@ log)
                /\ UNCHANGED minvs
           ELSE \E b \in MemoBehaviours :
                  /\ minvs' = Append(minvs, [key |-> k, ctx |-> context, beh |-> b,
                                              state |-> MemoInvoked(b),
                                              cleanup |-> FALSE])
                  /\ cache' = IF MemoInvoked(b) = "threw" THEN sized
                              ELSE Append(sized, [key |-> k, inv |-> Len(minvs) + 1,
                                                  timestamp |-> now])
                  /\ mcalls' = Append(mcalls,
                       [hit |-> FALSE, inv |-> Len(minvs) + 1, stamp |-> now] @@ log)
  /\ pc' = "invoked"
  /\ UNCHANGED <<op, outcome, compVars, retryVars, ctxVars, timeoutVars, debugVars, logicVars,
                 memoOpts, now>>

(* A cleanup that also drops the entry of a failed result.                 *)
CleanedUpDropsFailures(c, i) ==
  IF minvs[i].state = "pending" /\ ~AttemptPassed(MemoResult(minvs[i].beh).out)
    THEN CacheDelete(c, minvs[i].key)
    ELSE c

(* `result.catch(() => cache.delete(key))`: the cache once the promise of  *)
(* invocation i has settled.                                               *)
CleanedUp(c, i) ==
  IF minvs[i].state = "pending" /\ MemoResult(minvs[i].beh).out.kind = "throw"
    THEN CacheDelete(c, minvs[i].key)
    ELSE c

(* How long the promise of the underlying rule may take to settle, in ms:  *)
(* at once, or longer than the short ttl of the model.                     *)
RuleDurations == {0, 6}

(* The awaited result settles, some time after the rule was invoked when   *)
(* its promise was pending, and the attempt ends as in withRetry.  The     *)
(* cleanup of a rejection has run by then: its reaction is registered on   *)
(* the rule's promise before the memoized rule returns it, and the retry   *)
(* loop, the only caller, awaits the promise of the memoized rule.         *)
RetryMemoSettle ==
  /\ op = "withRetry(withMemoize)" /\ pc = "invoked"
  /\ LET i == mcalls[Len(mcalls)].inv
         r == MemoResult(minvs[i].beh)
         out == r.out
         e == AttemptError(out)
     IN  /\ \E d \in IF minvs[i].state = "pending" THEN RuleDurations ELSE {0} :
              now' = now + d
         /\ cache' = CleanedUp(cache, i)
         /\ minvs' = [minvs EXCEPT ![i].state =
                        IF @ = "pending" THEN "settled" ELSE @]
         /\ tlog' = IF minvs[i].state = "pending" THEN tlog \o r.tcalls ELSE tlog
         /\ IF AttemptPassed(out)
              THEN /\ outcome' = Resolved(out.val)
                   /\ pc' = "done"
                   /\ UNCHANGED <<attempt, lastError, consulted, delays>>
            ELSE /\ lastError' = e
                 /\ consulted' = Append(consulted, <<e, attempt>>)
                 /\ IF ~ShouldRetry(retryOpts.shouldRetry, e, attempt)
                      THEN /\ outcome' = GiveUp(e)
                           /\ pc' = "done"
                           /\ UNCHANGED <<attempt, delays>>
                    ELSE IF attempt < Attempts /\ DelayMs > 0
                      THEN LET delay == calculateDelay(retryOpts.retryStrategy, attempt, DelayMs)
                           IN  IF delay.kind = "throw"
                                 THEN /\ outcome' = Rejected(delay.val)
                                      /\ pc' = "done"
                                      /\ UNCHANGED <<attempt, delays>>
                               ELSE /\ delays' = Append(delays, delay.val)
                                    /\ pc' = "delay"
                                    /\ UNCHANGED <<attempt, outcome>>
                    ELSE /\ attempt' = attempt + 1
                         /\ pc' = "check"
                         /\ UNCHANGED <<outcome, delays>>
  /\ UNCHANGED <<op, rules, options, idx, calls, inflight, settled, order, ctxVars,
                 timeoutVars, debugVars, logicVars, retryOpts, history, memoOpts, mcalls>>

(* The timer of the delay fires after the delay: `attempt++`.              *)
RetryMemoTimer ==
  /\ op = "withRetry(withMemoize)" /\ pc = "delay"
  /\ now' = now + delays[Len(delays)].ms
  /\ attempt' = attempt + 1
  /\ pc' = "check"
  /\ UNCHANGED <<op, outcome, compVars, ctxVars, timeoutVars, debugVars, logicVars, retryOpts,
                 lastError, history, consulted, delays, memoOpts, cache, minvs, mcalls>>

(* The loop is over: `return fail("MAX_RETRIES_EXCEEDED")`.                *)
RetryMemoExhausted ==
  /\ op = "withRetry(withMemoize)" /\ pc = "check"
  /\ ~MoreAttempts(attempt)
  /\ outcome' = Resolved(fail(MaxRetriesExceeded))
  /\ pc' = "done"
  /\ UNCHANGED <<op, compVars, retryVars, ctxVars, utilVars>>

NextRetryMemo ==
  \/ RetryMemoCall
  \/ RetryMemoAttempt
  \/ RetryMemoSettle
  \/ RetryMemoTimer
  \/ RetryMemoExhausted

SpecRetryMemo == RetryMemoInit /\ [][NextRetryMemo]_vars

(***************************************************************************)
(* Vocabulary of the properties.                                           *)
(***************************************************************************)
(* What the rule listed at index i ends with when it is called.            *)
ListedResult(i) == ElemOutcome(rules[i]).out

PassedAt(i) == ListedResult(i) = Returned(pass)

FailedAt(i) ==
  /\ ListedResult(i).kind = "value"
  /\ HasStatus(ListedResult(i).val)
  /\ ListedResult(i).val.status = "failed"

(* The listed rule is unsafe (raw, or normalized in unsafe mode) and       *)
(* throws or rejects.                                                      *)
UnsafeFaultAt(i) ==
  /\ rules[i].cfg \in {"raw", "unsafe"}
  /\ rules[i].beh.kind \in {"throw", "reject"}

(* The listed rule was given the mode "unsafe" in its own configuration,   *)
(* through getNormalizedRule or as the README does, and the rule it wraps  *)
(* throws or rejects.                                                      *)
ExplicitUnsafeFaultAt(i) ==
  /\ rules[i].cfg \in {"unsafe", "options"}
  /\ rules[i].beh.kind \in {"throw", "reject"}

(* <<1, 2, ..., k>> *)
UpTo(k) == [i \in 1..k |-> i]

(* <<n, n-1, ..., j>> *)
DownTo(n, j) == [i \in 1..(n - j + 1) |-> n - i + 1]

(* C1: pipeRules invokes the rules in list order, each at most once; when  *)
(* the k-th rule is the first whose result is failed, exactly rules 1..k   *)
(* were invoked and the call resolves to the k-th rule's failure           *)
(* unchanged; when every rule passes (the empty list included) every rule  *)
(* was invoked once and the call resolves to pass().                       *)
C1_PipeFailFast ==
  op = "pipeRules" =>
    /\ \E k \in 0..Len(rules) : calls = UpTo(k)
    /\ pc = "done" =>
         /\ \A k \in 1..Len(rules) :
              (FailedAt(k) /\ \A j \in 1..(k - 1) : PassedAt(j)) =>
                 /\ calls = UpTo(k)
                 /\ outcome = Resolved(ListedResult(k).val)
         /\ (\A j \in 1..Len(rules) : PassedAt(j)) =>
              /\ calls = UpTo(Len(rules))
              /\ outcome = Resolved(pass)

C1_Witness ==
  /\ op = "pipeRules" /\ pc = "done" /\ Len(rules) = 3
  /\ PassedAt(1) /\ FailedAt(2)
  /\ calls = <<1, 2>>
  /\ outcome = Resolved(fail(Str("E1")))

(* C2: composeRules invokes the rules from the last list element to the    *)
(* first, each at most once; when rule j is the first to fail in that      *)
(* order, exactly rules n..j were invoked and the call resolves to rule    *)
(* j's failure unchanged; with no failure (or an empty list) the call      *)
(* resolves to pass().                                                     *)
C2_ComposeFailFast ==
  op = "composeRules" =>
    /\ \E j \in 1..(Len(rules) + 1) : calls = DownTo(Len(rules), j)
    /\ pc = "done" =>
         /\ \A j \in 1..Len(rules) :
              (FailedAt(j) /\ \A i \in (j + 1)..Len(rules) : PassedAt(i)) =>
                 /\ calls = DownTo(Len(rules), j)
                 /\ outcome = Resolved(ListedResult(j).val)
         /\ (\A i \in 1..Len(rules) : PassedAt(i)) =>
              /\ calls = DownTo(Len(rules), 1)
              /\ outcome = Resolved(pass)

C2_Witness ==
  /\ op = "composeRules" /\ pc = "done" /\ Len(rules) = 3
  /\ PassedAt(3) /\ FailedAt(2)
  /\ calls = <<3, 2>>
  /\ outcome = Resolved(ListedResult(2).val)

(* The errors of the failing rules, in list order, from index i on.        *)
RECURSIVE ErrorsFrom(_)
ErrorsFrom(i) ==
  IF i > Len(rules) THEN << >>
  ELSE (IF FailedAt(i) THEN << ListedResult(i).val.error >> ELSE << >>)
         \o ErrorsFrom(i + 1)

(* C3: whatever the order in which the rules of every settle, a resolved   *)
(* call carries exactly the errors of the failing rules, one per failing   *)
(* rule, in list order, falsy errors included, and is pass() iff no rule   *)
(* failed; and when every rule ends with a passed or failed result the     *)
(* call does resolve.                                                      *)
C3_EveryErrorOrder ==
  (op = "every" /\ pc = "done") =>
    /\ outcome.kind = "resolved" =>
         outcome.val = IF ErrorsFrom(1) = << >> THEN pass
                       ELSE fail(Arr(ErrorsFrom(1)))
    /\ (\A i \in 1..Len(rules) : PassedAt(i) \/ FailedAt(i)) =>
         outcome.kind = "resolved"

C3_Witness ==
  /\ op = "every" /\ pc = "done" /\ Len(rules) = 3
  /\ order = <<3, 1, 2>>
  /\ outcome = Resolved(fail(Arr(<< Num("0"), Str(""), Bool("false") >>)))

(* C4: every call of every invokes each rule of the list exactly once,     *)
(* in list order, whatever the other rules do, before any outcome is       *)
(* awaited.                                                                *)
C4_EveryInvokesAll ==
  (op = "every" /\ pc \in {"await", "done"}) => calls = UpTo(Len(rules))

(* C5: in a pipeRules composition whose mode is "safe" or unset, when the  *)
(* first rule that does not pass is explicitly unsafe and throws or        *)
(* rejects, the call resolves to a Failed result carrying the thrown value *)
(* as transformed by withSafeError's default transform, and no later rule  *)
(* is invoked.                                                             *)
C5_PipeSafePrecedence ==
  (op = "pipeRules" /\ pc = "done" /\ options.errorHandlingMode \in {"unset", "safe"}) =>
    \A k \in 1..Len(rules) :
      (ExplicitUnsafeFaultAt(k) /\ \A j \in 1..(k - 1) : PassedAt(j)) =>
         /\ outcome = Resolved(fail(DefaultErrorTransform(rules[k].beh.val)))
         /\ calls = UpTo(k)

(* C6: composeRules and every in mode "safe" or unset never reject: an     *)
(* exception or rejection of a contained rule becomes a Failed result.     *)
C6_CompositionsSafe ==
  (op \in {"composeRules", "every"} /\ options.errorHandlingMode \in {"unset", "safe"}) =>
    outcome.kind # "rejected"

(* C7: in a pipeRules composition in mode "unsafe", when the first rule    *)
(* that does not pass is unsafe and throws, the call rejects with the      *)
(* thrown value.                                                           *)
C7_PipeUnsafePropagates ==
  (op = "pipeRules" /\ pc = "done" /\ options.errorHandlingMode = "unsafe") =>
    \A k \in 1..Len(rules) :
      (UnsafeFaultAt(k) /\ \A j \in 1..(k - 1) : PassedAt(j)) =>
         outcome = Rejected(rules[k].beh.val)

(* The leaf rule handed to getNormalizedRule, and what it does.            *)
LeafThrows == rules[1].beh.kind \in {"throw", "reject"}

LeafReturnsResult ==
  /\ rules[1].beh.kind \in {"return", "resolve"}
  /\ HasStatus(rules[1].beh.val)
  /\ rules[1].beh.val.status \in {"passed", "failed"}

(* C8: in safe mode (set or left out) a value the rule throws or rejects   *)
(* with becomes fail(errorTransform(value)), errorTransform being called   *)
(* once, with that value; a passed or failed result the rule returns is    *)
(* returned unchanged and errorTransform is not called.  In unsafe mode    *)
(* the rule itself is what is called: its result or its exception is the   *)
(* call's, and no transform is called.                                     *)
C8_SafeNormalization ==
  (op = "getNormalizedRule" /\ pc = "done") =>
    IF options.errorHandlingMode # "unsafe"
      THEN /\ LeafThrows =>
                /\ outcome = Resolved(fail(ApplyTransform(options.errorTransform,
                                                         rules[1].beh.val)))
                /\ tlog = << [fn |-> options.errorTransform, arg |-> rules[1].beh.val] >>
           /\ LeafReturnsResult =>
                /\ outcome = Resolved(rules[1].beh.val)
                /\ tlog = << >>
      ELSE /\ tlog = << >>
           /\ outcome = IF LeafThrows THEN Rejected(rules[1].beh.val)
                        ELSE Resolved(rules[1].beh.val)

C8_Witness ==
  /\ op = "getNormalizedRule" /\ pc = "done"
  /\ options = Opts("safe", "custom")
  /\ rules[1].beh = Beh("reject", Num("42"))
  /\ outcome = Resolved(fail([t |-> "object", v |-> "code500", message |-> "42"]))
  /\ Len(tlog) = 1

(* C9: with the default errorTransform a call of the safe-normalized rule  *)
(* resolves, whatever the wrapped rule does, to a value whose status is    *)
(* "passed" or "failed"; a returned value without that discriminant gives  *)
(* fail(Error("Invalid rule - did not return RuleResult")).                *)
C9_SafeResultWellFormed ==
  (op = "getNormalizedRule" /\ pc = "done"
     /\ options.errorHandlingMode # "unsafe" /\ options.errorTransform = "unset") =>
    /\ outcome.kind = "resolved"
    /\ HasStatus(outcome.val)
    /\ outcome.val.status \in {"passed", "failed"}
    /\ (~LeafThrows /\ ~LeafReturnsResult) => outcome = Resolved(fail(InvalidRuleError))

(* The invocations of the wrapped rule that passed.                        *)
PassedInvocations ==
  { i \in 1..Len(history) : AttemptPassed(RawOutcome(history[i])) }

C10_WitnessPass ==
  /\ op = "withRetry" /\ pc = "done" /\ retryOpts.shouldRetry = "unset"
  /\ retryOpts.attempts = Given(3)
  /\ Len(history) = 3 /\ PassedInvocations = {3}
  /\ outcome = Resolved(pass)

C11_ShouldRetryShortCircuit ==
  op = "withRetry" =>
    /\ Len(consulted) = Len(history) - (IF pc = "invoked" \/ PassedInvocations # {} THEN 1 ELSE 0)
    /\ \A i \in 1..Len(consulted) :
         /\ consulted[i] = << AttemptError(RawOutcome(history[i])), i >>
         /\ ~ShouldRetry(retryOpts.shouldRetry, consulted[i][1], i) =>
              /\ pc = "done"
              /\ outcome = Resolved(fail(consulted[i][1]))
              /\ Len(history) = i
              /\ Len(consulted) = i
              /\ Len(delays) <= i - 1

C11_Witness ==
  /\ op = "withRetry" /\ pc = "done"
  /\ retryOpts.shouldRetry = "firstOnly" /\ retryOpts.attempts = Given(3)
  /\ retryOpts.delayMs = Given(10)
  /\ Len(history) = 2 /\ Len(consulted) = 2 /\ Len(delays) = 1
  /\ outcome = Resolved(fail(Str("E1")))

(* What the attempts made so far threw, the TypeError of reading the       *)
(* status of an undefined or null result included.                         *)
RuleExceptions ==
  { AttemptError(RawOutcome(history[i])) :
      i \in { j \in 1..Len(history) :
                \/ history[j].kind \in {"throw", "reject"}
                \/ ~CanReadStatus(RawOutcome(history[j]).val) } }

EarlierEffects(k, fx) ==
  Cardinality({ j \in 1..(k - 1) : Effect(rules[seen[j].rule]) = fx })

(* C20: with cloneContext not true, pipeRules, composeRules and every hand *)
(* the caller's own context object to every child: each child reads the    *)
(* mutations of all children invoked before it, and the caller's object    *)
(* carries the mutations of all children invoked.                          *)
C20_SharedContext ==
  (op \in {"pipeRules", "composeRules", "every"} /\ cloneOpts.cloneContext # "true") =>
    /\ \A k \in 1..Len(seen) :
         /\ seen[k].ref = context
         /\ seen[k].read = [count |-> EarlierEffects(k, "count++"),
                            value |-> EarlierEffects(k, "nested++")]
    /\ IsObjectRef(context) =>
         /\ heap[context.v].count = EarlierEffects(Len(seen) + 1, "count++")
         /\ heap[heap[context.v].nested].value = EarlierEffects(Len(seen) + 1, "nested++")
    /\ heap["clone"] = NoObject

C20_Witness ==
  /\ op = "every" /\ pc = "done" /\ cloneOpts.cloneContext = "unset"
  /\ Len(seen) = 3
  /\ seen[3].read = [count |-> 2, value |-> 0]
  /\ heap["ctx"].count = 2 /\ heap["ctx.nested"].value = 1
  /\ outcome = Resolved(pass)

(* C18: a call of the rule with a timeout invokes the rule once and starts *)
(* one timer of timeoutMs; nothing is returned before one side settles;    *)
(* when the rule settles first with a result r the call resolves to r      *)
(* unchanged; when the timer fires first the call resolves to              *)
(* fail(timeoutError).                                                     *)
C18_TimeoutOutcome ==
  (op = "withTimeout" /\ pc # "idle") =>
    /\ calls = << 1 >>
    /\ Len(timer) = 1 /\ timer[1].ms = timeoutOpts.timeoutMs
    /\ events = << >> => outcome = Pending
    /\ (events # << >> /\ events[1] = "rule" /\ rules[1].beh.kind \in {"return", "resolve"}) =>
         outcome = Resolved(rules[1].beh.val)
    /\ (events # << >> /\ events[1] = "timer") =>
         outcome = Resolved(fail(timeoutOpts.timeoutError))

C18_Witness ==
  /\ op = "withTimeout" /\ pc = "done"
  /\ rules[1].beh = Beh("resolve", fail(Str("E1")))
  /\ timeoutOpts.timeoutError = Str("Timeout exceeded")
  /\ events = << "timer" >>
  /\ outcome = Resolved(fail(Str("Timeout exceeded")))

(* C19: nothing is cancelled.  After the timer has won, the rule is still  *)
(* running and can settle, and after the rule has won (or thrown) the      *)
(* timer can still fire; once both sides have settled the call's result is *)
(* still the one of the side that settled first.                           *)
C19_TimeoutNeverCancels ==
  op = "withTimeout" =>
    /\ events = << "timer" >> => (raced = "pending" /\ ENABLED TimeoutRuleSettle)
    /\ events = << "rule" >> => (~timer[1].fired /\ ENABLED TimeoutFire)
    /\ Len(events) <= 2
    /\ (Len(events) = 2 /\ events[1] = "timer") =>
         /\ raced = "settled" /\ settled[1] = RawOutcome(rules[1].beh)
         /\ outcome = Resolved(fail(timeoutOpts.timeoutError))
    /\ (Len(events) = 2 /\ events[1] = "rule") =>
         /\ timer[1].fired
         /\ outcome = IF rules[1].beh.kind \in {"throw", "reject"}
                        THEN Rejected(rules[1].beh.val)
                        ELSE Resolved(rules[1].beh.val)

C19_Witness ==
  /\ op = "withTimeout" /\ pc = "done"
  /\ rules[1].beh = Beh("reject", Err("Boom"))
  /\ timeoutOpts.timeoutError = Obj("o1")
  /\ events = << "timer", "rule" >>
  /\ settled[1] = Thrown(Err("Boom"))
  /\ outcome = Resolved(fail(Obj("o1")))

(* The underlying rule threw or rejected on its i-th invocation.           *)
Faulted(i) == minvs[i].beh.kind \in {"throw", "reject"}

(* C13: with maxSize unset or at least 1, of two consecutive calls with    *)
(* the same key, the second made before the ttl has elapsed on the entry   *)
(* the first one returned, the second is a hit: it does not invoke the     *)
(* underlying rule and returns the same result; and the first two calls,   *)
(* when their keys differ, invoke the rule twice.                          *)
C13_MemoHitLaw ==
  (op = "withMemoize" /\ (~memoOpts.maxSize.given \/ memoOpts.maxSize.v >= 1)) =>
    \A j \in 1..(Len(mcalls) - 1) :
      LET c1 == mcalls[j]
          c2 == mcalls[j + 1]
      IN  /\ (c1.key = c2.key /\ ~Faulted(c1.inv)
                /\ (memoOpts.ttl.given => c2.at - c1.stamp <= memoOpts.ttl.v)) =>
               (c2.hit /\ c2.inv = c1.inv)
          /\ (j = 1 /\ c1.key # c2.key) => (~c2.hit /\ c2.inv # c1.inv)

(* C14: with maxSize unset, a call with the key of an evaluation that an   *)
(* earlier call started and that is still pending, made within ttl of that *)
(* earlier call, does not invoke the underlying rule: it returns the       *)
(* pending evaluation.                                                     *)
C14_MemoInFlightSharing ==
  (op = "withMemoize" /\ ~memoOpts.maxSize.given) =>
    \A j \in 1..Len(mcalls) : \A k \in (j + 1)..Len(mcalls) :
      (/\ ~mcalls[j].hit
       /\ mcalls[k].key = mcalls[j].key
       /\ mcalls[j].inv \in mcalls[k].pending
       /\ memoOpts.ttl.given => mcalls[k].at - mcalls[j].at <= memoOpts.ttl.v) =>
        (mcalls[k].hit /\ mcalls[k].inv = mcalls[j].inv)

(* C15: with ttl given, no call returns an entry older than ttl; every     *)
(* entry older than ttl, of any key, is removed at the start of a call,    *)
(* and a call whose key had such an entry invokes the rule again and       *)
(* stamps the fresh entry with the time of the call.                       *)
C15_MemoTtl ==
  (op = "withMemoize" /\ memoOpts.ttl.given) =>
    \A j \in 1..Len(mcalls) :
      LET c == mcalls[j]
      IN  /\ c.hit => c.at - c.stamp <= memoOpts.ttl.v
          /\ \A n \in 1..Len(c.before) :
               c.at - c.before[n].timestamp > memoOpts.ttl.v =>
                 /\ ~CacheHas(c.swept, c.before[n].key)
                 /\ c.before[n].key = c.key => (~c.hit /\ c.stamp = c.at)

(* C16: with maxSize = N >= 1, a call with a key that is not cached, made  *)
(* when N keys are cached, removes the key inserted first, and a call with *)
(* that key made next is a miss.                                           *)
C16_MemoSizeEviction ==
  (op = "withMemoize" /\ memoOpts.maxSize.given /\ memoOpts.maxSize.v >= 1) =>
    \A j \in 1..Len(mcalls) :
      LET c == mcalls[j]
      IN  (Len(c.swept) >= memoOpts.maxSize.v /\ ~CacheHas(c.swept, c.key)) =>
            /\ ~CacheHas(c.sized, c.swept[1].key)
            /\ (j < Len(mcalls) /\ mcalls[j + 1].key = c.swept[1].key) =>
                 ~mcalls[j + 1].hit

(* C17: an evaluation that ended with an exception or a rejection of the   *)
(* underlying rule leaves no entry behind, in safe and in unsafe mode: the *)
(* only calls that return such an evaluation are those made while it was   *)
(* still pending.                                                          *)
C17_MemoNoFaultReplay ==
  op = "withMemoize" =>
    /\ \A i \in 1..Len(minvs) :
         (Faulted(i) /\ minvs[i].state # "pending" /\ ~minvs[i].cleanup) =>
           \A n \in 1..Len(cache) : cache[n].inv # i
    /\ \A j \in 1..Len(mcalls) :
         (mcalls[j].hit /\ Faulted(mcalls[j].inv)) =>
           mcalls[j].inv \in mcalls[j].pending

(* The strategy copies nested objects: every always uses structuredClone,  *)
(* pipeRules and composeRules copy deeply unless the strategy is shallow.  *)
DeepStrategy == op = "every" \/ cloneOpts.cloneStrategy # "shallow"

(* C21: with cloneContext true and an object context, the context is       *)
(* cloned once per call: every child receives the same clone and reads the *)
(* mutations of the children invoked before it, and the caller's object    *)
(* keeps its own fields; under the JSON and structured strategies its      *)
(* nested object is unchanged too.                                         *)
C21_ClonedOncePerCall ==
  (op \in {"pipeRules", "composeRules", "every"} /\ cloneOpts.cloneContext = "true"
     /\ IsObjectRef(context)) =>
    /\ pc # "idle" => (currentContext = Obj("clone") /\ heap["clone"].live)
    /\ \A k \in 1..Len(seen) :
         /\ seen[k].ref = Obj("clone")
         /\ seen[k].read = [count |-> EarlierEffects(k, "count++"),
                            value |-> EarlierEffects(k, "nested++")]
    /\ heap[context.v].count = 0
    /\ DeepStrategy => heap[heap[context.v].nested].value = 0

C21_Witness ==
  /\ op = "pipeRules" /\ pc = "done" /\ cloneOpts = CloneOpts("true", "json")
  /\ context = Obj("ctx")
  /\ Len(seen) = 3
  /\ seen[3].read = [count |-> 1, value |-> 1]
  /\ heap["clone"].count = 2 /\ heap["clone.nested"].value = 1
  /\ heap["ctx"].count = 0 /\ heap["ctx.nested"].value = 0

(* C22: with cloneContext true, a context that is null or undefined is     *)
(* replaced by a fresh empty object, under every strategy and in every     *)
(* composition operator: the children receive that object.                 *)
C22_AbsentContextCloned ==
  (op \in {"pipeRules", "composeRules", "every"} /\ cloneOpts.cloneContext = "true"
     /\ context \in {Undefined, Null} /\ pc # "idle") =>
    /\ currentContext = Obj("clone")
    /\ \A k \in 1..Len(seen) : seen[k].ref = Obj("clone")

(* The errors of the rules 1..k, in list order, when each of them fails.   *)
ErrorsUpTo(k) == [j \in 1..k |-> ListedResult(j).val.error]

(* C23: oneOf invokes the rules one at a time in list order, each only     *)
(* after the previous one settled; at the first rule that passes the call  *)
(* resolves to pass() and no later rule is invoked; when every rule fails  *)
(* the call resolves to fail(errors), errors holding each rule's error in  *)
(* list order; an empty list resolves to pass().                           *)
C23_OneOfFirstPass ==
  op = "oneOf" =>
    /\ \E k \in 0..Len(rules) : calls = UpTo(k)
    /\ Cardinality(inflight) <= 1
    /\ Len(calls) = Len(order) + Cardinality(inflight)
    /\ pc = "done" =>
         /\ \A k \in 1..Len(rules) :
              (PassedAt(k) /\ \A j \in 1..(k - 1) : FailedAt(j)) =>
                 /\ calls = UpTo(k)
                 /\ outcome = Resolved(pass)
         /\ (Len(rules) > 0 /\ \A j \in 1..Len(rules) : FailedAt(j)) =>
              /\ calls = UpTo(Len(rules))
              /\ outcome = Resolved(fail(Arr(ErrorsUpTo(Len(rules)))))
         /\ Len(rules) = 0 => (calls = << >> /\ outcome = Resolved(pass))

C23_Witness ==
  /\ op = "oneOf" /\ pc = "done" /\ Len(rules) = 3
  /\ calls = <<1, 2, 3>> /\ order = <<1, 2, 3>>
  /\ outcome = Resolved(fail(Arr(<< Str("E1"), Bool("false"), Num("0") >>)))

C23_WitnessPass ==
  /\ op = "oneOf" /\ pc = "done" /\ Len(rules) = 3
  /\ FailedAt(1) /\ PassedAt(2)
  /\ calls = <<1, 2>>
  /\ outcome = Resolved(pass)

(* What the rule el of a match ends the call with.                         *)
MatchRuleOutcome(el) ==
  LET r == getNormalizedRule(ElemOutcome(el).out, options)
  IN  IF r.out.kind = "throw" THEN Rejected(r.out.val) ELSE Resolved(r.out.val)

(* C24: a call of match evaluates the accessor once; when the cases hold a *)
(* rule under the key, that rule alone is invoked, once, with the caller's *)
(* context, and its result is the call's; otherwise a callable default is  *)
(* invoked once and its result returned, a default that is not callable    *)
(* gives fail(default), and no default gives                               *)
(* fail("No matching rule for key: <key>").  Nothing stored under another  *)
(* key is invoked.                                                         *)
C24_MatchDispatch ==
  (op = "match" /\ pc = "done" /\ selector.kind \in {"return", "resolve"}) =>
    LET key == selector.val.v
    IN  /\ Len(evals) = 1 /\ evals[1].context = context
        /\ \A n \in 1..Len(calls) : calls[n] \in {key, "default"}
        /\ IF key \in DOMAIN cases
             THEN /\ calls = << key >>
                  /\ seen[1].ref = context
                  /\ outcome = MatchRuleOutcome(cases[key])
           ELSE IF defaultCase = Undefined
             THEN /\ calls = << >>
                  /\ outcome = Resolved(fail(Str("No matching rule for key: " \o key)))
           ELSE IF isRule(defaultCase)
             THEN /\ calls = << "default" >>
                  /\ seen[1].ref = context
                  /\ outcome = MatchRuleOutcome(defaultCase)
           ELSE /\ calls = << >>
                /\ outcome = Resolved(fail(defaultCase))

(* The predicate yields the boolean b.                                     *)
PredicateYields(b) ==
  selector.kind \in {"return", "resolve"} /\ selector.val = Bool(b)

(* The predicate throws, rejects or yields a value that is not a boolean.  *)
PredicateFails ==
  selector.kind \in {"throw", "reject"} \/ TypeOf(selector.val) # "boolean"

(* C25: a call of when, unless or ifElse evaluates the predicate once,     *)
(* with the caller's context; when invokes its rule iff the predicate is   *)
(* true, unless iff it is false, ifElse invokes ifRule when true and       *)
(* elseRule when false and supplied; with no branch to run the call        *)
(* resolves to pass().  The other branch is never invoked and the result   *)
(* of the invoked branch is the result of the call.                        *)
C25_ConditionalSelection ==
  (op \in Conditionals) =>
    /\ Len(evals) <= 1
    /\ \A b \in {"true", "false"} : (PredicateYields(b) /\ pc = "done") =>
         LET runs == CASE op = "when" -> IF b = "true" THEN <<1>> ELSE << >>
                       [] op = "unless" -> IF b = "false" THEN <<1>> ELSE << >>
                       [] op = "ifElse" -> IF b = "true" THEN <<1>>
                                           ELSE IF Len(rules) = 2 THEN <<2>> ELSE << >>
         IN  /\ Len(evals) = 1 /\ evals[1].context = context
             /\ calls = runs
             /\ runs = << >> => outcome = Resolved(pass)
             /\ \A i \in 1..Len(rules) :
                  (runs = <<i>> /\ (PassedAt(i) \/ FailedAt(i))) =>
                     /\ seen[1].ref = context
                     /\ outcome = Resolved(ListedResult(i).val)

C25_Witness ==
  /\ op = "ifElse" /\ pc = "done" /\ Len(rules) = 2
  /\ PredicateYields("false")
  /\ PassedAt(1) /\ FailedAt(2)
  /\ calls = <<2>>
  /\ outcome = Resolved(fail(Str("E1")))

(* C26: in the default safe mode, when the predicate of when, unless or    *)
(* ifElse throws, rejects or yields a value that is not a boolean, the     *)
(* call resolves to a failed result whose error is what                    *)
(* predicateErrorTransform (the default transform when unset) makes of     *)
(* the thrown value, or of the error "Predicate must return boolean, got   *)
(* <type>"; errorTransform is not called and no branch is invoked.         *)
C26_PredicateFailureSafe ==
  (op \in Conditionals /\ options.errorHandlingMode \in {"unset", "safe"}
     /\ PredicateFails /\ pc = "done") =>
    LET cause == IF selector.kind \in {"throw", "reject"} THEN selector.val
                 ELSE Err("Predicate must return boolean, got " \o TypeOf(selector.val))
        error == IF predicateErrorTransform = "unset"
                   THEN DefaultPredicateErrorTransform(cause)
                 ELSE CustomPredicateErrorTransform(cause)
    IN  /\ outcome = Resolved(fail(error))
        /\ calls = << >>
        /\ tlog = << [fn |-> "predicate." \o predicateErrorTransform, arg |-> cause] >>

C26_Witness ==
  /\ op = "when" /\ pc = "done"
  /\ options = Opts("safe", "custom")
  /\ predicateErrorTransform = "custom"
  /\ selector = Beh("resolve", Num("1"))
  /\ calls = << >>
  /\ outcome = Resolved(fail(Str("Predicate failed: Error: Predicate must return boolean, got number")))

(* C27: with errorHandlingMode "unsafe", an exception thrown by the        *)
(* predicate of when, unless or ifElse propagates to the caller: the call  *)
(* rejects with that exception.                                            *)
C27_PredicateThrowsUnsafe ==
  (op \in Conditionals /\ options.errorHandlingMode = "unsafe"
     /\ selector.kind \in {"throw", "reject"} /\ pc = "done") =>
    outcome = Rejected(selector.val)

(* C28: in pipeRules and composeRules at most one child rule is in flight  *)
(* at any time: a rule is invoked only when every rule invoked before it   *)
(* has settled, and the rules settle in the order they were invoked.       *)
C28_NoOverlap ==
  op \in {"pipeRules", "composeRules"} =>
    /\ Cardinality(inflight) <= 1
    /\ Len(calls) = Len(order) + Cardinality(inflight)
    /\ \A n \in 1..Len(order) : order[n] = calls[n]
    /\ \A i \in inflight : i = calls[Len(calls)]

C28_Witness ==
  /\ op = "composeRules" /\ pc = "loop" /\ Len(rules) = 3
  /\ rules[3].beh.kind = "resolve" /\ rules[2].beh.kind = "resolve"
  /\ calls = <<3, 2>>
  /\ order = <<3>>
  /\ inflight = {2}

(* The delay the schedule names after failed attempt i.                    *)
ScheduledDelay(i) ==
  CASE retryOpts.retryStrategy = "linear" -> Ms(DelayMs * i)
    [] retryOpts.retryStrategy = "exponential" -> Ms(DelayMs * 2 ^ (i - 1))
    [] retryOpts.retryStrategy = "custom" -> Ms(CustomStrategy(i))
    [] OTHER -> Ms(DelayMs)

(* The number of delays that have begun when the loop is at attempt n.     *)
DelaysBegun(n) ==
  LET last == IF Attempts > 1 THEN Attempts - 1 ELSE 0
      sofar == IF pc = "delay" THEN n ELSE n - 1
  IN  IF sofar < last THEN sofar ELSE last

(* C29: with delayMs > 0, withRetry waits exactly one delay after each     *)
(* failed attempt i that is followed by another attempt, of delayMs for    *)
(* the fixed, an unset or an unknown strategy, delayMs * i for linear,     *)
(* delayMs * 2^(i-1) for exponential and f(i) for a function f; no delay   *)
(* precedes the first attempt or follows the last, and when every attempt  *)
(* fails the function has been called attempts - 1 times.                  *)
C29_RetryDelaySchedule ==
  (op = "withRetry" /\ pc # "idle" /\ DelayMs > 0) =>
    /\ Len(delays) = DelaysBegun(attempt)
    /\ \A i \in 1..Len(delays) : delays[i] = ScheduledDelay(i)
    /\ (pc = "done" /\ outcome = Resolved(fail(MaxRetriesExceeded)) /\ Attempts >= 1
          /\ Len(history) = Attempts) =>
         Len(delays) = Attempts - 1

(* The positions of the trace at which name was called.                    *)
TraceCalls(name) == { n \in 1..Len(trace) : trace[n].cb = name }

(* onStart precedes the rule; when the rule was invoked and settled with a *)
(* result, onEnd is called once, right after the rule, with that result    *)
(* and the call returns the result; when the rule was invoked and threw or *)
(* rejected, onError is called once, right after the rule, with the value  *)
(* thrown and the call rejects with that value.                            *)
DebugTransparent ==
  /\ \A r \in TraceCalls("rule") :
       /\ debugOpts.onStart # "unset" => TraceCalls("onStart") = {r - 1}
       /\ debugOpts.onStart = "unset" => TraceCalls("onStart") = {}
  /\ (pc = "done" /\ calls = <<1>>) =>
       LET out == RawOutcome(rules[1].beh)
       IN  \A r \in TraceCalls("rule") :
             /\ out.kind = "value" =>
                  /\ outcome = Resolved(out.val)
                  /\ debugOpts.onEnd # "unset" =>
                       /\ TraceCalls("onEnd") = {r + 1}
                       /\ trace[r + 1].arg = out.val
             /\ out.kind = "throw" =>
                  /\ outcome = Rejected(out.val)
                  /\ debugOpts.onError # "unset" =>
                       /\ TraceCalls("onError") = {r + 1}
                       /\ trace[r + 1].arg = out.val

(* C30: in each call of a rule built by withDebug onStart is invoked       *)
(* before the wrapped rule; when the rule settles with a result onEnd is   *)
(* invoked once afterwards with that result and the call returns it; when  *)
(* the rule throws or rejects onError is invoked once with the thrown      *)
(* value and the call rejects with that same value.                        *)
C30_DebugOrderingTransparency == op = "withDebug" => DebugTransparent

(* The effect throws or rejects.                                           *)
EffectFails == selector.kind \in {"throw", "reject"}

(* What the rule withTap wraps settles with, normalized by the options.    *)
TappedOutcome == getNormalizedRule(ElemOutcome(rules[1]).out, options).out

(* C31: a rule built by withTap calls the effect once per call, after the  *)
(* wrapped rule has settled with a result, with (input, result, context),  *)
(* and resolves to that result; a rule built by tap calls its effect once  *)
(* and resolves to pass(); what the effect throws or rejects with is       *)
(* logged and neither changes the result nor reaches the caller.           *)
C31_TapIsolation ==
  (op \in Taps) =>
    /\ Len(evals) <= 1
    /\ (op = "withTap" /\ Len(evals) = 1) =>
         (order = <<1>> /\ TraceCalls("rule") = {1} /\ TraceCalls("effect") = {2})
    /\ (op = "tap" /\ pc = "done") =>
         /\ outcome = Resolved(pass)
         /\ evals = << [input |-> "input", context |-> context] >>
    /\ (op = "withTap" /\ pc = "done" /\ TappedOutcome.kind = "value") =>
         /\ outcome = Resolved(TappedOutcome.val)
         /\ evals = << [input |-> "input", result |-> TappedOutcome.val,
                        context |-> context] >>
    /\ pc = "done" /\ Len(evals) = 1 =>
         IF EffectFails
           THEN /\ Cardinality(TraceCalls("console.error")) = 1
                /\ trace[Len(trace)] = TraceEvent("console.error", selector.val)
         ELSE TraceCalls("console.error") = {}

C31_Witness ==
  /\ op = "withTap" /\ pc = "done"
  /\ rules[1].beh = Beh("resolve", fail(Str("E1")))
  /\ selector = Beh("reject", Err("Effect failed"))
  /\ Len(evals) = 1
  /\ TraceCalls("console.error") = {3}
  /\ outcome = Resolved(fail(Str("E1")))

(* C32: a call of a rule built by withLazyContext calls loader(input)      *)
(* once; when the loader throws or rejects the call resolves to a failed   *)
(* result, whose error is the message of the Error or "Context loading     *)
(* failed" for any other value, and the rule is not invoked; otherwise the *)
(* rule is invoked once with the loaded context and the result it returns  *)
(* is the result of the call.                                              *)
C32_LazyContext ==
  op = "withLazyContext" =>
    /\ Len(evals) <= 1 /\ Len(calls) <= 1
    /\ pc = "done" =>
         /\ evals = << [input |-> "input"] >>
         /\ selector.kind \in {"throw", "reject"} =>
              /\ calls = << >>
              /\ outcome = Resolved(fail(IF selector.val.t = "error" THEN Str(selector.val.v)
                                         ELSE Str("Context loading failed")))
         /\ selector.kind \in {"return", "resolve"} =>
              /\ calls = <<1>>
              /\ Len(seen) = 1 /\ seen[1].ref = selector.val
              /\ rules[1].beh.kind \in {"return", "resolve"} =>
                   outcome = Resolved(rules[1].beh.val)

C32_Witness ==
  /\ op = "withLazyContext" /\ pc = "done"
  /\ selector = Beh("reject", Err("DB down"))
  /\ calls = << >>
  /\ outcome = Resolved(fail(Str("DB down")))

C32_WitnessLoaded ==
  /\ op = "withLazyContext" /\ pc = "done"
  /\ selector = Beh("resolve", Obj("ctx"))
  /\ rules[1].beh = Beh("resolve", fail(Str("E1")))
  /\ seen[1].ref = Obj("ctx")
  /\ outcome = Resolved(fail(Str("E1")))

(* The calls of the memoized rule that missed, up to call n.               *)
MissesUpTo(n) == { m \in 1..n : ~mcalls[m].hit }

(* C33: whether a call of the memoized rule is a hit is decided by the key *)
(* alone: a call whose key is cached is a hit whatever context it passes,  *)
(* invokes nothing, and gets the result of the invocation made by the      *)
(* earlier miss for that key, also when that miss passed another context.  *)
C33_MemoIgnoresContext ==
  op = "withMemoize" =>
    /\ Len(minvs) = Cardinality(MissesUpTo(Len(mcalls)))
    /\ \A n \in 1..Len(mcalls) :
         /\ mcalls[n].hit = CacheHas(mcalls[n].sized, mcalls[n].key)
         /\ mcalls[n].hit =>
              \E m \in 1..(n - 1) :
                 /\ ~mcalls[m].hit
                 /\ mcalls[m].key = mcalls[n].key
                 /\ mcalls[m].inv = mcalls[n].inv
                 /\ minvs[mcalls[n].inv].ctx = mcalls[m].ctx

C33_Witness ==
  /\ op = "withMemoize" /\ Len(mcalls) = 2 /\ Len(minvs) = 1
  /\ mcalls[1].key = "a" /\ mcalls[2].key = "a"
  /\ mcalls[1].ctx = Obj("ctx") /\ mcalls[2].ctx = Undefined
  /\ ~mcalls[1].hit /\ mcalls[2].hit
  /\ mcalls[2].inv = 1
  /\ minvs[1].state = "settled"
  /\ MemoCallOutcome(2) = MemoCallOutcome(1)

(* C34: a rule built by not resolves to fail(error) when the wrapped rule   *)
(* passes and to pass() when it fails; what the wrapped rule throws or     *)
(* rejects with rejects the call, and is never reported as pass().         *)
C34_NotInversion ==
  (op = "not" /\ pc = "done") =>
    /\ rules[1].beh.kind \in {"return", "resolve"} /\ rules[1].beh.val = pass =>
         outcome = Resolved(fail(errs[1]))
    /\ (LeafReturnsResult /\ rules[1].beh.val.status = "failed") =>
         outcome = Resolved(pass)
    /\ LeafThrows => outcome = Rejected(rules[1].beh.val)

(* C35: the factory given to inject is called once, with the dependency,   *)
(* at construction, and every call of the returned rule calls the          *)
(* configured rule once with the input and the context of that call.       *)
C35_InjectDelegates ==
  op = "inject" =>
    /\ trace = << [cb |-> "factory", arg |-> Dependency] >>
    /\ Len(seen) = Len(evals)
    /\ \A n \in 1..Len(evals) :
         /\ seen[n].input = evals[n].input
         /\ seen[n].ref = evals[n].context

(* C36: with maxSize = N >= 1 the cache of a memoized rule never holds     *)
(* more than N entries after a call, whatever the keys, the empty string   *)
(* included.                                                               *)
C36_MemoSizeBound ==
  (op = "withMemoize" /\ memoOpts.maxSize.given /\ memoOpts.maxSize.v >= 1) =>
    Len(cache) <= memoOpts.maxSize.v

(* The cleanup of invocation i runs in this step.                          *)
CleansUpNow(i) ==
  /\ Len(minvs') = Len(minvs)
  /\ i \in 1..Len(minvs)
  /\ minvs[i].cleanup /\ ~minvs'[i].cleanup

(* C37: in unsafe mode the cleanup of an evaluation that rejects removes   *)
(* the entry of that evaluation only: an entry stored for the same key by  *)
(* a later miss, after the old one was evicted, stays cached when the old  *)
(* promise rejects.                                                        *)
C37_MemoCleanupEntryExact ==
  [][(op = "withMemoize" /\ options.errorHandlingMode = "unsafe") =>
       \A i \in 1..Len(minvs) : \A n \in 1..Len(cache) :
         (CleansUpNow(i) /\ cache[n].inv # i) =>
           \E m \in 1..Len(cache') : cache'[m] = cache[n]]_vars

(* C39: with attempts <= 0 a call of the retrying rule never invokes the   *)
(* wrapped rule and never consults shouldRetry, and resolves to            *)
(* fail("MAX_RETRIES_EXCEEDED"); with attempts >= 1 (given or by default)  *)
(* a call that has resolved has invoked the rule at least once.            *)
C39_RetryNoAttempts ==
  op = "withRetry" =>
    /\ Attempts <= 0 =>
         /\ history = << >> /\ consulted = << >> /\ delays = << >>
         /\ pc = "done" => outcome = Resolved(fail(MaxRetriesExceeded))
    /\ (Attempts >= 1 /\ pc = "done") => Len(history) >= 1

C39_Witness ==
  /\ op = "withRetry" /\ pc = "done"
  /\ retryOpts.attempts = Given(0)
  /\ retryOpts.shouldRetry = "never"
  /\ history = << >> /\ consulted = << >>
  /\ outcome = Resolved(fail(MaxRetriesExceeded))

C39_WitnessNegative ==
  /\ op = "withRetry" /\ pc = "done"
  /\ retryOpts.attempts = Given(0 - 1)
  /\ history = << >>
  /\ outcome = Resolved(fail(MaxRetriesExceeded))

(* C40: in a call of a debugged rule at most one of onEnd and onError is   *)
(* invoked, and onError is invoked only when the wrapped rule itself threw *)
(* or rejected, never for what onStart or onEnd threw.                     *)
C40_DebugCallbackExclusivity ==
  op = "withDebug" =>
    /\ TraceCalls("onEnd") = {} \/ TraceCalls("onError") = {}
    /\ TraceCalls("onError") # {} => LeafThrows

(* The composition of the README: no maxSize, the default shouldRetry, and *)
(* a ttl, when given, that outlasts the call.                              *)
ReadmeComposition ==
  /\ ~memoOpts.maxSize.given
  /\ retryOpts.shouldRetry = "unset"
  /\ memoOpts.ttl.given => now <= memoOpts.ttl.v

(* The first evaluation of the underlying rule returned a failed result.   *)
FirstEvaluationFails ==
  /\ Len(minvs) >= 1
  /\ minvs[1].beh.kind \in {"return", "resolve"}
  /\ HasStatus(minvs[1].beh.val) /\ minvs[1].beh.val.status = "failed"

(* C38: in withRetry(withMemoize(rule, keyFn), {attempts: n}), when the    *)
(* first evaluation returns fail(e), that result is cached: every later    *)
(* attempt of the call is a hit on it, the underlying rule is invoked once *)
(* for the whole call, and the call resolves to                            *)
(* fail("MAX_RETRIES_EXCEEDED") after n attempts.                          *)
C38_RetryOverMemo ==
  (op = "withRetry(withMemoize)" /\ ReadmeComposition /\ FirstEvaluationFails) =>
    /\ Len(minvs) = 1
    /\ \A n \in 2..Len(mcalls) : mcalls[n].hit /\ mcalls[n].inv = 1
    /\ pc = "done" =>
         /\ outcome = Resolved(fail(MaxRetriesExceeded))
         /\ Len(mcalls) = Attempts

C38_Witness ==
  /\ op = "withRetry(withMemoize)" /\ pc = "done"
  /\ ReadmeComposition /\ FirstEvaluationFails
  /\ retryOpts.attempts = Given(3)
  /\ memoOpts.ttl = Given(300000)
  /\ delays = <<Ms(10), Ms(10)>>
  /\ now = 26
  /\ Len(mcalls) = 3 /\ Len(minvs) = 1
  /\ mcalls[3].hit
  /\ outcome = Resolved(fail(MaxRetriesExceeded))

=============================================================================
